---- MODULE Spec2Model ----
(***************************************************************************)
(* A model of mafic: the Node connection state machine (node.py), the      *)
(* NodePool registry and strategy pipeline (pool.py, strategy.py) and the  *)
(* Player session (player.py).                                             *)
(*                                                                         *)
(* Every coroutine is cut at its awaits: one action is the code that runs  *)
(* between two suspensions of a task on the asyncio loop.                  *)
(***************************************************************************)
EXTENDS Integers, Sequences, FiniteSets, TLC

(***************************************************************************)
(* Bounds.                                                                 *)
(***************************************************************************)
\* connect() invocations (and so sockets and listeners) per Node
MaxTasks == 2
\* rooms (guild ids) of the reconciliation specification
MaxRooms == 3

Nodes == {"a", "b"}
TaskIds == 1..MaxTasks
Rooms == 1..MaxRooms
\* Python's None for the integer-valued fields (_ws, _session_id, ...)
None == 0

VARIABLES
    ws,            \* Node._ws: None or the socket (named by the connect task that opened it)
    available,     \* Node._available
    ready,         \* Node._ready (asyncio.Event)
    session_id,    \* Node._session_id
    version_checked, \* Node._rest_uri already ends with /v3
    stats,         \* Node._stats
    players,       \* Node._players: room -> reference to a Player object
    pool,          \* NodePool._nodes: the Nodes registered, in the insertion
                   \* order of their keys
    config,        \* Node.shard_ids and Node.regions, as given to Node.__init__
    node_label,    \* Node._label, as given to Node.__init__
    shard_count,   \* client.shard_count
    selection,     \* the last strategy or NodePool.get_node call: its
                   \* arguments and what it returned or raised
    removal,       \* the NodePool.remove_node call and its per-player tasks
    http,          \* the last Node.__request call: the response it got and
                   \* what it returned or raised
    merged,        \* the last application of a Filter operator or of
                   \* Player._update_filters: its operands and its results
    inbox,         \* the frames the server of each Node has sent on its socket
                   \* and _handle_msg has not handled yet, oldest first
    handled,       \* the last frame _handle_msg handled: what became of it
                   \* and the event dispatched to the client, if any
    ctask,         \* the connect() invocations of each Node
    lst,           \* the _ws_listener() tasks of each Node
    hmsg,          \* the _handle_msg() task of the `ready` frame of each socket
    sock,          \* the sockets, as the transport holds them
    srv,           \* the audio server of each Node: its session and its players
    own,           \* the Player the host created for each room
    adopted,       \* the Player objects created by Node._add_unknown_player
    guild_voice,   \* guild.me.voice of each room, as the host library caches it
    call,          \* the Player call in progress for each room, or how the last one ended
    rest           \* for each room, the Node of the update request in flight
                   \* and the Node the last voice update was sent to

vars == <<ws, available, ready, session_id, version_checked, stats, players,
          pool, config, node_label, shard_count, selection, removal, http,
          merged, inbox, handled, ctask, lst, hmsg, sock,
          srv,
          own, adopted, guild_voice, call, rest>>

nodeVars == <<ws, available, ready, session_id, version_checked, stats>>
taskVars == <<ctask, lst, hmsg, sock, srv>>
playerVars == <<own, adopted, guild_voice, call, rest>>
poolVars == <<pool, config, node_label, shard_count, selection, removal, http,
              merged, inbox, handled>>

(***************************************************************************)
(* Values.                                                                 *)
(***************************************************************************)
\* An endpoint is a string, here the sequence of its characters, with the
\* literal ".discord.media" as one symbol; None is the symbol "None".
NoEndpoint == <<"None">>
\* Player.current when nothing is playing (Python's None)
NoTrack == [id |-> None, length |-> 0, position |-> 0]
\* Filter(): every parameter group and the volume are None
NoneVolume == -1
EmptyFilter == [timescale |-> None, volume |-> NoneVolume]
\* the `filters` object of a player payload with no key
EmptyFilters == [keys |-> {}, timescale |-> None, volume |-> 0]
\* remote player of a room the server has no player for
NoRemote == [present |-> FALSE, track |-> None, length |-> 0, position |-> 0,
             paused |-> FALSE, filters |-> EmptyFilters, voice_session |-> None,
             token |-> None, endpoint |-> NoEndpoint, ping |-> -1]
\* a connect() invocation that was never started
\* (backoff: the delay() calls made so far on the ExponentialBackoff the
\* invocation holds, None when it holds none; answered, actual: the answer
\* to its GET of the players, once the server has sent it)
NoTask == [pc |-> "unused", origin |-> "none", by |-> None, err |-> "",
           sid |-> None, expected |-> [r \in Rooms |-> "none"], removing |-> {},
           backoff |-> None, answered |-> FALSE,
           actual |-> [r \in Rooms |-> NoRemote]]
\* a _ws_listener() task that was never created
\* (backoff: the delay() calls made so far on its ExponentialBackoff)
NoListener == [pc |-> "none", sock |-> None, was_available |-> FALSE,
               backoff |-> 0]
\* a socket that was never opened
NoSocket == [st |-> "none", rdy |-> "none", resumed |-> FALSE, sid |-> None]
\* Node._stats before the first stats frame
NoStats == [present |-> FALSE, playing_player_count |-> 0, system_load |-> 0]
\* Player._server_state before a voice-server event
NoServerState == [present |-> FALSE, token |-> None, endpoint |-> NoEndpoint]
\* Player.__init__ (node is the constructor argument)
NewPlayer(node) ==
    [node |-> node, session_id |-> None, server_state |-> NoServerState,
     connected |-> FALSE, position |-> 0, ping |-> -1, current |-> NoTrack,
     filters |-> <<>>, last_track |-> NoTrack, paused |-> FALSE]
\* Node.__init__ : no player registered
NoPlayers == [r \in Rooms |-> "none"]
\* no Player call made yet for a room
NoCall == [op |-> "none", pc |-> "idle", result |-> "none"]
\* no player request in flight
NoRequest == [update |-> "none", voice |-> "none"]
\* Node.__init__ with shard_ids = None and regions = None
NoConfig == [sharded |-> FALSE, shard_ids |-> {}, regional |-> FALSE, regions |-> <<>>]
\* a player of the removed Node without a task, and no remove_node call
NoOp == [pc |-> "none", target |-> "none", failed |-> FALSE, raised_in |-> "none"]
NoRemoval == [pc |-> "idle", node |-> "none", transfer_players |-> FALSE,
              closed |-> FALSE, task |-> [r \in Rooms |-> NoOp]]
\* a decoded JSON value, here of no call
NoJson == [type |-> "none"]
\* what a call gave before it ended
NoOut == [kind |-> "none", error |-> "none", status |-> 0, message |-> <<>>,
          value |-> NoJson]
\* no Node.__request call was made yet
NoHttp == [pc |-> "idle", method |-> "none", status |-> 0, text |-> <<>>,
           out |-> NoOut]
\* no Filter operator was applied yet
NoMerge == [op |-> "none"]
\* a frame of the socket: `track` is the identifier of the track of an
\* event, `connected` the flag of the state of a playerUpdate
Frame(op, type, guildId, track, reason, connected) ==
    [op |-> op, type |-> type, guildId |-> guildId, track |-> track,
     reason |-> reason, connected |-> connected]
\* no event was dispatched to the client
NoEvent == [name |-> "none", track |-> NoTrack]
\* no frame was handled yet
NoHandled == [frame |-> Frame("none", "none", None, None, "none", FALSE),
              outcome |-> "none", event |-> NoEvent]
\* no strategy and no get_node call was made yet
NoSelection == [op |-> "none", nodes |-> <<>>, guild_id |-> None,
                endpoint |-> NoEndpoint, strategies |-> <<>>, out |-> <<>>]

Running(pc) == pc \in {"version", "opening", "backoff", "waitready",
                       "syncreq", "removing", "synced"}
\* the Node is a value of NodePool._nodes
Registered(n) == \E i \in 1..Len(pool) : pool[i] = n
\* NodePool.add_node, line 222: `self._nodes[node.label] = node`.  A key the
\* dict already has keeps its place and takes the new value.
SetNode(nodes, n) ==
    IF \E i \in 1..Len(nodes) : node_label[nodes[i]] = node_label[n]
    THEN [i \in 1..Len(nodes) |->
            IF node_label[nodes[i]] = node_label[n] THEN n ELSE nodes[i]]
    ELSE Append(nodes, n)
FreeIds(n) == {k \in TaskIds : ctask[n][k].pc = "unused"}
NewId(n) == CHOOSE k \in FreeIds(n) : \A j \in FreeIds(n) : k <= j

\* _ws_listener, lines 603-612: listener k starts to receive when Node._ws
\* is s.  Without a socket the listener raises RuntimeError, and a socket
\* another listener is receiving on refuses a concurrent receive(); either
\* way the listener task ends with the error.
Receiving(n, k, s) ==
    IF s = None \/ \E j \in TaskIds \ {k} : lst[n][j].pc = "recv" /\ lst[n][j].sock = s
    THEN [lst[n][k] EXCEPT !.pc = "aborted", !.sock = None, !.backoff = 0]
    ELSE [lst[n][k] EXCEPT !.pc = "recv", !.sock = s, !.backoff = 0]

\* Entered without the check of lines 524-525
Entered_unchecked(n, origin, by) ==
    [NoTask EXCEPT !.pc = IF version_checked[n] THEN "opening" ELSE "version",
                   !.origin = origin, !.by = by]

\* Node.connect, lines 524-544: the entry check, then the version query of
\* the first invocation.  A task created with create_task runs this prefix
\* before any I/O completes, so it is one step with the spawn.
Entered(n, origin, by) ==
    IF ws[n] # None
    THEN [NoTask EXCEPT !.pc = "raised", !.origin = origin, !.by = by,
                        !.err = "NodeAlreadyConnected"]
    ELSE [NoTask EXCEPT !.pc = IF version_checked[n] THEN "opening" ELSE "version",
                        !.origin = origin, !.by = by]

(***************************************************************************)
(* Node.connect                                                            *)
(***************************************************************************)
\* NodePool.add_node calls node.connect() (the player_cls argument, which
\* Node.connect of this source does not take, is left out); the caller calls
\* again only after the previous call raised.
add_node(n) ==
    /\ ~Registered(n)
    /\ FreeIds(n) # {}
    /\ \A k \in TaskIds : ctask[n][k].origin = "caller" => ctask[n][k].pc = "raised"
    /\ ctask' = [ctask EXCEPT ![n][NewId(n)] = Entered(n, "caller", None)]
    /\ UNCHANGED <<nodeVars, players, poolVars, lst, hmsg, sock, srv,
                   playerVars>>

\* Node._check_version: GET /version; a major other than 3 or a minor below
\* 7 raises RuntimeError, anything else appends /v3 to the stored URLs.
check_version(n, k) ==
    /\ ctask[n][k].pc = "version"
    /\ \E supported \in BOOLEAN :
         IF version_checked[n] \/ supported
         THEN /\ version_checked' = [version_checked EXCEPT ![n] = TRUE]
              /\ ctask' = [ctask EXCEPT ![n][k].pc = "opening"]
         ELSE /\ ctask' = [ctask EXCEPT ![n][k].pc = "raised",
                                        ![n][k].err = "RuntimeError"]
              /\ UNCHANGED version_checked
    /\ UNCHANGED <<ws, available, ready, session_id, stats, players, poolVars,
                   lst, hmsg, sock, srv, playerVars>>

\* The server's side of a new socket: it resumes its session when it still
\* has one, or starts a new session (named by the socket) with no players.
ServerAccept(n, k, resumed) ==
    IF resumed THEN srv[n]
    ELSE [sess |-> k, remote |-> [r \in Rooms |-> NoRemote]]

\* Node.connect, lines 551-584 with the socket opened: _ws is assigned, the
\* listener task is created and starts to receive on that socket.
ws_connect_ok(n, k) ==
    /\ ctask[n][k].pc = "opening"
    /\ \E resumed \in BOOLEAN :
         /\ resumed => srv[n].sess # None
         /\ srv' = [srv EXCEPT ![n] = ServerAccept(n, k, resumed)]
         /\ sock' = [sock EXCEPT ![n][k] =
                       [st |-> "open", rdy |-> "queued", resumed |-> resumed,
                        sid |-> srv'[n].sess]]
    /\ ws' = [ws EXCEPT ![n] = k]
    /\ lst' = [lst EXCEPT ![n][k] = [NoListener EXCEPT !.pc = "recv", !.sock = k]]
    /\ ctask' = [ctask EXCEPT ![n][k].pc = "waitready"]
    /\ UNCHANGED <<available, ready, session_id, version_checked, stats, players,
                   poolVars, hmsg, playerVars>>

\* Node.connect, lines 553-569: ws_connect raised; the invocation takes the
\* next delay of the backoff it was given, or of a new one, and sleeps.
ws_connect_fail(n, k) ==
    /\ ctask[n][k].pc = "opening"
    /\ ctask' = [ctask EXCEPT ![n][k].pc = "backoff", ![n][k].backoff = @ + 1]
    /\ UNCHANGED <<nodeVars, players, poolVars, lst, hmsg, sock, srv,
                   playerVars>>

\* Node.connect, lines 571-584 after the sleep: the retry is scheduled, and
\* the invocation goes on: it creates a listener task (which raises
\* RuntimeError when there is no socket) and waits for the ready Event.
backoff_done(n, k) ==
    /\ ctask[n][k].pc = "backoff"
    /\ FreeIds(n) # {}
    /\ ctask' = [ctask EXCEPT
                   ![n][k].pc = "waitready",
                   ![n][NewId(n)] = [Entered(n, "retry", k) EXCEPT
                                       !.backoff = ctask[n][k].backoff]]
    /\ lst' = [lst EXCEPT ![n][k] = Receiving(n, k, ws[n])]
    /\ UNCHANGED <<nodeVars, players, poolVars, hmsg, sock, srv,
                   playerVars>>

\* ready_wait_done with the flag set before the reconciliation has run
ready_wait_done_eager(n, k) ==
    /\ ctask[n][k].pc = "waitready"
    /\ ready[n]
    /\ ctask' = [ctask EXCEPT ![n][k].pc = "syncreq",
                              ![n][k].sid = session_id[n]]
    /\ available' = [available EXCEPT ![n] = TRUE]
    /\ UNCHANGED <<ws, ready, session_id, version_checked, stats, players,
                   poolVars, lst, hmsg, sock, srv, playerVars>>

\* Node.connect, lines 584-595 and sync_players line 1155: the Event is
\* set, so the wait returns and the players of the session are requested.
ready_wait_done(n, k) ==
    /\ ctask[n][k].pc = "waitready"
    /\ ready[n]
    /\ ctask' = [ctask EXCEPT ![n][k].pc = "syncreq",
                              ![n][k].sid = session_id[n]]
    /\ UNCHANGED <<nodeVars, players, poolVars, lst, hmsg, sock, srv,
                   playerVars>>

\* Node.connect, lines 585-590: wait_for timed out.
ready_timeout(n, k) ==
    /\ ctask[n][k].pc = "waitready"
    /\ ~ready[n]
    /\ ctask' = [ctask EXCEPT ![n][k].pc = "raised", ![n][k].err = "TimeoutError"]
    /\ UNCHANGED <<nodeVars, players, poolVars, lst, hmsg, sock, srv,
                   playerVars>>

(***************************************************************************)
(* Player state set by the Node                                            *)
(***************************************************************************)
\* Track.from_data_with_info / Track.from_data on the track of a player payload
from_data_with_info(state) ==
    [id |-> state.track, length |-> state.length, position |-> state.position]

\* Filter.from_payload: an attribute is set for every key the payload has
from_payload(data) ==
    [timescale |-> IF "timescale" \in data.keys THEN data.timescale ELSE None,
     volume |-> IF "volume" \in data.keys THEN data.volume ELSE NoneVolume]

\* set_state without the paused flag of the payload
set_state_without_paused(p, state) ==
    [p EXCEPT !.session_id = state.voice_session,
              !.ping = state.ping,
              !.current = IF state.track # None THEN from_data_with_info(state)
                          ELSE NoTrack,
              !.filters = <<[label |-> "RESUME", filter |-> from_payload(state.filters)]>>,
              !.server_state = [present |-> TRUE, token |-> state.token,
                                endpoint |-> state.endpoint],
              !.position = IF state.track # None THEN state.position ELSE @]

\* Player.set_state
set_state(p, state) ==
    [p EXCEPT !.session_id = state.voice_session,
              !.ping = state.ping,
              !.current = IF state.track # None THEN from_data_with_info(state)
                          ELSE NoTrack,
              !.filters = <<[label |-> "RESUME", filter |-> from_payload(state.filters)]>>,
              !.paused = state.paused,
              !.server_state = [present |-> TRUE, token |-> state.token,
                                endpoint |-> state.endpoint],
              !.position = IF state.track # None THEN state.position ELSE @]

\* Player.cleanup followed by the `_connected = False` of Player.disconnect
cleanup(p) ==
    [p EXCEPT !.current = NoTrack, !.position = 0, !.paused = FALSE,
              !.ping = 0, !.connected = FALSE]

\* the Player object a reference of the player map of Node n names
Deref(n, r, ref) == IF ref = "own" THEN own[r] ELSE adopted[n][r]

(***************************************************************************)
(* Node.sync_players                                                       *)
(***************************************************************************)
\* add_unknown_players adopting a room whatever the voice state of its guild
add_unknown_players_any_voice(n, expected, actual) ==
    LET adds == {r \in Rooms : actual[r].present /\ expected[r] = "none"}
    IN /\ adopted' = [adopted EXCEPT ![n] =
                        [r \in Rooms |-> IF r \in adds
                                         THEN set_state(NewPlayer("none"), actual[r])
                                         ELSE adopted[n][r]]]
       /\ players' = [players EXCEPT ![n] =
                        [r \in Rooms |-> IF r \in adds THEN "adopted"
                                         ELSE players[n][r]]]

\* Node._add_unknown_player for every room of actual - expected: a room
\* whose guild has no voice state or no channel is skipped.  (The guild is
\* taken from the client's cache, so no add suspends.)
add_unknown_players(n, expected, actual) ==
    LET adds == {r \in Rooms : actual[r].present /\ expected[r] = "none"
                               /\ guild_voice[r] = "channel"}
    IN /\ adopted' = [adopted EXCEPT ![n] =
                        [r \in Rooms |-> IF r \in adds
                                         THEN set_state(NewPlayer("none"), actual[r])
                                         ELSE adopted[n][r]]]
       /\ players' = [players EXCEPT ![n] =
                        [r \in Rooms |-> IF r \in adds THEN "adopted"
                                         ELSE players[n][r]]]

\* sync_players, lines 1155-1171: the answer to GET sessions/<id>/players
\* (the one in flight, or one the server sends at this moment).
\* A status outside 2xx raises out of connect().  Otherwise the diff is
\* taken, the unknown players are added and the removals are started: each
\* runs Player.disconnect(force=True) up to its change_voice_state.  With
\* nothing to add and nothing to remove gather() does not suspend, and
\* connect() goes on to line 596 (and NodePool.add_node to line 222) in the
\* same step.
sync_response(n, k) ==
    /\ ctask[n][k].pc = "syncreq"
    /\ \E ok \in BOOLEAN :
         /\ ok => (ctask[n][k].sid # None /\ ctask[n][k].sid = srv[n].sess)
         /\ IF ok
            THEN LET actual == IF ctask[n][k].answered THEN ctask[n][k].actual
                               ELSE srv[n].remote
                     expected == players[n]
                     add == {r \in Rooms : actual[r].present /\ expected[r] = "none"}
                     rem == {r \in Rooms : expected[r] # "none" /\ ~actual[r].present}
                     nothing == add = {} /\ rem = {}
                 IN /\ add_unknown_players(n, expected, actual)
                    /\ ctask' = [ctask EXCEPT
                                   ![n][k].expected = expected,
                                   ![n][k].removing = rem,
                                   ![n][k].pc = IF nothing THEN "done"
                                                ELSE IF rem = {} THEN "synced"
                                                ELSE "removing"]
                    /\ available' = IF nothing THEN [available EXCEPT ![n] = TRUE]
                                    ELSE available
                    /\ pool' = IF nothing /\ ctask[n][k].origin = "caller"
                               THEN SetNode(pool, n) ELSE pool
            ELSE /\ ctask' = [ctask EXCEPT ![n][k].pc = "raised",
                                           ![n][k].err = "HTTPException"]
                 /\ UNCHANGED <<players, adopted, available, pool>>
    /\ UNCHANGED <<ws, ready, session_id, version_checked, stats, config,
                   node_label, shard_count, selection, removal, http, merged,
                   inbox, handled,
                   lst, hmsg, sock, srv,
                   own, guild_voice, call, rest>>

\* Node._remove_unknown_player after change_voice_state returned:
\* Player.cleanup, _connected = False, then Node.remove_player.
remove_unknown_player(n, k, r) ==
    /\ r \in ctask[n][k].removing
    /\ LET ref == ctask[n][k].expected[r]
           left == ctask[n][k].removing \ {r}
       IN /\ own' = IF ref = "own" THEN [own EXCEPT ![r] = cleanup(@)] ELSE own
          /\ adopted' = IF ref = "adopted"
                        THEN [adopted EXCEPT ![n][r] = cleanup(@)] ELSE adopted
          /\ ctask' = [ctask EXCEPT
                         ![n][k].removing = left,
                         ![n][k].pc = IF @ = "removing" /\ left = {} THEN "synced" ELSE @]
    /\ guild_voice' = [guild_voice EXCEPT ![r] = "none"]
    /\ players' = [players EXCEPT ![n][r] = "none"]
    /\ UNCHANGED <<nodeVars, poolVars, lst, hmsg, sock, srv, call, rest>>

\* Node._remove_unknown_player when change_voice_state raises: the finally
\* block of Player.disconnect cleans up, remove_player is not reached and
\* gather() raises out of sync_players and connect().
remove_unknown_player_fail(n, k, r) ==
    /\ r \in ctask[n][k].removing
    /\ LET ref == ctask[n][k].expected[r]
       IN /\ own' = IF ref = "own" THEN [own EXCEPT ![r] = cleanup(@)] ELSE own
          /\ adopted' = IF ref = "adopted"
                        THEN [adopted EXCEPT ![n][r] = cleanup(@)] ELSE adopted
    /\ ctask' = [ctask EXCEPT
                   ![n][k].removing = @ \ {r},
                   ![n][k].pc = "raised",
                   ![n][k].err = IF ctask[n][k].pc = "raised" THEN @
                                 ELSE "change_voice_state"]
    /\ UNCHANGED <<nodeVars, players, poolVars, lst, hmsg, sock, srv,
                   guild_voice, call, rest>>

\* Node.connect, line 596, after gather() returned, and the return into
\* NodePool.add_node, line 222
set_available(n, k) ==
    /\ ctask[n][k].pc = "synced"
    /\ available' = [available EXCEPT ![n] = TRUE]
    /\ ctask' = [ctask EXCEPT ![n][k].pc = "done"]
    /\ pool' = IF ctask[n][k].origin = "caller"
               THEN SetNode(pool, n) ELSE pool
    /\ UNCHANGED <<config, node_label, shard_count, selection, removal, http,
                   merged, inbox, handled>>
    /\ UNCHANGED <<ws, ready, session_id, version_checked, stats, players,
                   lst, hmsg, sock, srv, playerVars>>

(***************************************************************************)
(* Node._ws_listener and Node._handle_msg                                  *)
(***************************************************************************)
\* _ws_listener receives the `ready` frame and _handle_msg runs up to its
\* first await: the session id is stored; a resumed session sets the Event
\* at once, a new one first sends its resume configuration.
recv_ready(n, k) ==
    LET s == lst[n][k].sock IN
    /\ lst[n][k].pc = "recv"
    /\ sock[n][s].rdy = "queued"
    /\ sock' = [sock EXCEPT ![n][s].rdy = "taken"]
    /\ session_id' = [session_id EXCEPT ![n] = sock[n][s].sid]
    /\ IF sock[n][s].resumed
       THEN /\ ready' = [ready EXCEPT ![n] = TRUE]
            /\ hmsg' = [hmsg EXCEPT ![n][s] = "done"]
       ELSE /\ ready' = ready
            /\ hmsg' = [hmsg EXCEPT ![n][s] = "configuring"]
    /\ lst' = [lst EXCEPT ![n][k] = Receiving(n, k, ws[n])]
    /\ UNCHANGED <<ws, available, version_checked, stats, players, poolVars,
                   ctask, srv, playerVars>>

\* _handle_msg, lines 699-701: configure_resuming() returned
configure_done(n, s) ==
    /\ hmsg[n][s] = "configuring"
    /\ hmsg' = [hmsg EXCEPT ![n][s] = "done"]
    /\ ready' = [ready EXCEPT ![n] = TRUE]
    /\ UNCHANGED <<ws, available, session_id, version_checked, stats, players,
                   poolVars, ctask, lst, sock, srv, playerVars>>

\* _handle_msg, line 699: configure_resuming() raised; the Event stays unset
configure_fail(n, s) ==
    /\ hmsg[n][s] = "configuring"
    /\ hmsg' = [hmsg EXCEPT ![n][s] = "raised"]
    /\ UNCHANGED <<nodeVars, players, poolVars, ctask, lst, sock, srv,
                   playerVars>>

\* the stats frames the server of the model sends: one track playing on an
\* idle machine, and nothing playing on a machine at full load
StatsFrames ==
    {[present |-> TRUE, playing_player_count |-> f[1], system_load |-> f[2]] :
        f \in {<<1, 0>>, <<0, 100>>}}

\* _ws_listener receives a `stats` frame, _handle_msg line 676
recv_stats(n, k, st) ==
    LET s == lst[n][k].sock IN
    /\ lst[n][k].pc = "recv"
    /\ sock[n][s].st = "open"
    /\ sock[n][s].rdy = "taken"
    /\ stats[n] # st
    /\ stats' = [stats EXCEPT ![n] = st]
    /\ lst' = [lst EXCEPT ![n][k] = Receiving(n, k, ws[n])]
    /\ UNCHANGED <<ws, available, ready, session_id, version_checked, players,
                   poolVars, ctask, hmsg, sock, srv, playerVars>>

\* the transport of socket s closes (the server went away)
server_close(n, s) ==
    /\ sock[n][s].st = "open"
    /\ sock' = [sock EXCEPT ![n][s].st = "closed"]
    /\ UNCHANGED <<nodeVars, players, poolVars, ctask, lst, hmsg, srv,
                   playerVars>>

\* listener_closed with the socket kept in Node._ws
listener_closed_keeps_ws(n, k) ==
    LET s == lst[n][k].sock IN
    /\ lst[n][k].pc = "recv"
    /\ sock[n][s].st = "closed"
    /\ sock[n][s].rdy # "queued"
    /\ available' = [available EXCEPT ![n] = FALSE]
    /\ lst' = [lst EXCEPT ![n][k].pc = "sleep", ![n][k].sock = None,
                          ![n][k].was_available = available[n],
                          ![n][k].backoff = @ + 1]
    /\ UNCHANGED <<ws, ready, session_id, version_checked, stats, players, poolVars,
                   ctask, hmsg, sock, srv, playerVars>>

\* _ws_listener, lines 623-639: a CLOSED frame.  `self._ws.close_code`
\* raises when another listener already cleared _ws.
listener_closed(n, k) ==
    LET s == lst[n][k].sock IN
    /\ lst[n][k].pc = "recv"
    /\ sock[n][s].st = "closed"
    /\ sock[n][s].rdy # "queued"
    /\ available' = [available EXCEPT ![n] = FALSE]
    /\ IF ws[n] = None
       THEN /\ lst' = [lst EXCEPT ![n][k].pc = "aborted", ![n][k].sock = None]
            /\ ws' = ws
       ELSE /\ lst' = [lst EXCEPT ![n][k].pc = "sleep", ![n][k].sock = None,
                                  ![n][k].was_available = available[n],
                                  ![n][k].backoff = @ + 1]
            /\ ws' = [ws EXCEPT ![n] = None]
    /\ UNCHANGED <<ready, session_id, version_checked, stats, players, poolVars,
                   ctask, hmsg, sock, srv, playerVars>>

\* _ws_listener, lines 640-641 after the sleep: one connect() task is
\* created with the listener's backoff and the listener returns.
listener_wake(n, k) ==
    /\ lst[n][k].pc = "sleep"
    /\ FreeIds(n) # {}
    /\ ctask' = [ctask EXCEPT ![n][NewId(n)] =
                   [Entered(n, "listener", k) EXCEPT !.backoff = lst[n][k].backoff]]
    /\ lst' = [lst EXCEPT ![n][k].pc = "returned"]
    /\ UNCHANGED <<nodeVars, players, poolVars, hmsg, sock, srv,
                   playerVars>>

(***************************************************************************)
(* strategy.py and Node.weight                                             *)
(***************************************************************************)
\* the high value Node.weight returns before any stats frame (6.63e34 in
\* the source: above every weight the stats frames of the model give)
SentinelWeight == 2000000000

\* 1.05 ** k in thousandths (by squaring, each product rounded down)
RECURSIVE Pow105(_)
Pow105(k) ==
    IF k = 0 THEN 1000
    ELSE IF k % 2 = 1 THEN (Pow105(k - 1) * 105) \div 100
    ELSE LET half == Pow105(k \div 2) IN (half * half) \div 1000

\* Node.weight with a weight of 0 before any stats frame
weight_zero_without_stats(n) ==
    IF ~stats[n].present THEN 0
    ELSE LET playing == stats[n].playing_player_count * 1000
             cpu == Pow105(stats[n].system_load) * 10 - 10000
         IN playing + cpu + 0 + 0 + 0

\* Node.weight, in thousandths.  The stats frames of the model come from a
\* one-core machine with no frame stats and memory below 96%, for which the
\* null-frame, deficit and memory terms are 0; system_load is in percent.
weight(n) ==
    IF ~stats[n].present THEN SentinelWeight
    ELSE LET playing == stats[n].playing_player_count * 1000
             cpu == Pow105(stats[n].system_load) * 10 - 10000
         IN playing + cpu + 0 + 0 + 0

\* the snowflake of room r, and its bits above the low 22
GuildId(r) == r * 4194304
ShiftRight22(x) == x \div 4194304

\* shard_strategy taking the shard from the low bits of the snowflake
shard_strategy_unshifted(nodes, guild_id, count, endpoint) ==
    LET actual_count == IF count = None THEN 1 ELSE count
        shard_id == guild_id % actual_count
        keep(n) == ~config[n].sharded \/ shard_id \in config[n].shard_ids
    IN SelectSeq(nodes, keep)

\* shard_strategy
shard_strategy(nodes, guild_id, count, endpoint) ==
    LET actual_count == IF count = None THEN 1 ELSE count
        shard_id == ShiftRight22(guild_id) % actual_count
        keep(n) == ~config[n].sharded \/ shard_id \in config[n].shard_ids
    IN SelectSeq(nodes, keep)

Lower == {"a", "b", "c", "d", "e", "f", "g", "h", "i", "j", "k", "l", "m",
          "n", "o", "p", "q", "r", "s", "t", "u", "v", "w", "x", "y", "z"}
Digits == {"0", "1", "2", "3", "4", "5", "6", "7", "8", "9"}

\* the first index from i on whose symbol is outside S (Len + 1 if none)
RunEnd(e, i, S) ==
    CHOOSE j \in i..(Len(e) + 1) :
        /\ j = Len(e) + 1 \/ e[j] \notin S
        /\ \A m \in i..(j - 1) : e[m] \in S

\* [a-z-]{1,15}\d{1,5}\.discord\.media matched from index start
MatchFrom(e, start) ==
    LET a == RunEnd(e, start, Lower \cup {"-"})
        b == RunEnd(e, a, Digits)
    IN IF /\ a - start >= 1 /\ a - start <= 15
          /\ b - a >= 1 /\ b - a <= 5
          /\ b <= Len(e) /\ e[b] = ".discord.media"
       THEN [ok |-> TRUE, region |-> SubSeq(e, start, a - 1)]
       ELSE [ok |-> FALSE, region |-> <<>>]

\* _REGION_REGEX.match(endpoint): the optional "vip-" is tried first
region_match(e) ==
    IF /\ Len(e) >= 4 /\ SubSeq(e, 1, 4) = <<"v", "i", "p", "-">>
       /\ MatchFrom(e, 5).ok
    THEN MatchFrom(e, 5)
    ELSE MatchFrom(e, 1)

\* Python values of the membership test of location_strategy: the matched
\* group is a str, the items of Node.regions are VoiceRegion members, and a
\* member of a plain Enum is not equal to its value.
Str(chars) == [type |-> "str", value |-> chars]
VoiceRegion(chars) == [type |-> "VoiceRegion", value |-> chars]
\* a member of Region: its value is a tuple of VoiceRegion members
Region(members) == [type |-> "Region", value |-> members]
\* a member of Group: its value is a tuple of Region members
Group(members) == [type |-> "Group", value |-> members]
Tuple(items) == [type |-> "tuple", value |-> items]
\* x in list: == between values of different types is False
In(x, list) ==
    \E i \in 1..Len(list) : list[i].type = x.type /\ list[i].value = x.value

INDIA == VoiceRegion(<<"i", "n", "d", "i", "a">>)
JAPAN == VoiceRegion(<<"j", "a", "p", "a", "n">>)
HONG_KONG == VoiceRegion(<<"h", "o", "n", "g", "k", "o", "n", "g">>)
EAST_ASIA == Region(<<JAPAN, HONG_KONG>>)

\* _wrap_regions, lines 91-100: what one item of the argument appends
WrapItem(item) ==
    CASE item.type = "Group" ->
           [i \in 1..Len(item.value) |-> Tuple(item.value[i].value)]
      [] item.type = "Region" -> <<Tuple(item.value)>>
      [] item.type = "VoiceRegion" -> <<item>>

RECURSIVE WrapFrom(_, _)
WrapFrom(regions, i) ==
    IF i > Len(regions) THEN <<>>
    ELSE WrapItem(regions[i]) \o WrapFrom(regions, i + 1)

\* _wrap_regions: None for None and for an empty list
wrap_regions(regions) ==
    IF regions = <<>> THEN [regional |-> FALSE, regions |-> <<>>]
    ELSE [regional |-> TRUE, regions |-> WrapFrom(regions, 1)]

\* Node.__init__, lines 209-210
NodeConfig(regions, shard_ids) ==
    [sharded |-> shard_ids.given, shard_ids |-> shard_ids.ids,
     regional |-> wrap_regions(regions).regional,
     regions |-> wrap_regions(regions).regions]

\* location_strategy without the fallback of lines 117-119
location_strategy_no_fallback(nodes, guild_id, count, endpoint) ==
    IF endpoint = NoEndpoint THEN nodes
    ELSE LET m == region_match(endpoint)
             voice_region == Str(m.region)
             keep(n) == config[n].regional /\ In(voice_region, config[n].regions)
             regional_nodes == SelectSeq(nodes, keep)
         IN IF ~m.ok THEN nodes
            ELSE IF m.region = <<>> THEN nodes
            ELSE regional_nodes

\* location_strategy
location_strategy(nodes, guild_id, count, endpoint) ==
    IF endpoint = NoEndpoint THEN nodes
    ELSE LET m == region_match(endpoint)
             voice_region == Str(m.region)
             keep(n) == config[n].regional /\ In(voice_region, config[n].regions)
             regional_nodes == SelectSeq(nodes, keep)
         IN IF ~m.ok THEN nodes
            ELSE IF m.region = <<>> THEN nodes
            ELSE IF regional_nodes = <<>> THEN nodes
            ELSE regional_nodes

\* usage_strategy returning only the first Node of the lowest weight
usage_strategy_first_lowest(nodes, guild_id, count, endpoint) ==
    IF nodes = <<>> THEN nodes
    ELSE LET lowest == CHOOSE w \in {weight(nodes[i]) : i \in 1..Len(nodes)} :
                           \A i \in 1..Len(nodes) : w <= weight(nodes[i])
             first == CHOOSE i \in 1..Len(nodes) :
                          /\ weight(nodes[i]) = lowest
                          /\ \A j \in 1..(i - 1) : weight(nodes[j]) # lowest
         IN <<nodes[first]>>

\* usage_strategy
usage_strategy(nodes, guild_id, count, endpoint) ==
    IF nodes = <<>> THEN nodes
    ELSE LET lowest == CHOOSE w \in {weight(nodes[i]) : i \in 1..Len(nodes)} :
                           \A i \in 1..Len(nodes) : w <= weight(nodes[i])
             keep(n) == weight(n) = lowest
         IN SelectSeq(nodes, keep)

\* call_strategy: the lists a strategy may return (random_strategy returns
\* any one-node list; random.choice of an empty list raises IndexError)
call_strategy(strategy, nodes, guild_id, count, endpoint) ==
    CASE strategy = "LOCATION" -> {location_strategy(nodes, guild_id, count, endpoint)}
      [] strategy = "RANDOM" -> {<<nodes[i]>> : i \in 1..Len(nodes)}
      [] strategy = "SHARD" -> {shard_strategy(nodes, guild_id, count, endpoint)}
      [] strategy = "USAGE" -> {usage_strategy(nodes, guild_id, count, endpoint)}

\* NodePool.__init__: the default strategies
DefaultStrategies == <<"SHARD", "LOCATION", "USAGE">>

\* the loop of NodePool.get_node without the return at one candidate
RECURSIVE run_strategies_to_the_end(_, _, _, _, _)
run_strategies_to_the_end(nodes, strategies, i, guild_id, endpoint) ==
    IF i > Len(strategies)
    THEN IF nodes = <<>> THEN {"IndexError"}
         ELSE {nodes[j] : j \in 1..Len(nodes)}
    ELSE LET lists == call_strategy(strategies[i], nodes, guild_id, shard_count, endpoint)
         IN IF lists = {} THEN {"IndexError"}
            ELSE UNION {IF Len(l) = 0 THEN {"NoNodesAvailable"}
                        ELSE run_strategies_to_the_end(l, strategies, i + 1,
                                                       guild_id, endpoint)
                        : l \in lists}

\* NodePool.get_node, lines 330-351, from strategy i on: the labels (or the
\* errors) the call may end with
RECURSIVE run_strategies(_, _, _, _, _)
run_strategies(nodes, strategies, i, guild_id, endpoint) ==
    IF i > Len(strategies)
    THEN IF nodes = <<>> THEN {"IndexError"}
         ELSE {nodes[j] : j \in 1..Len(nodes)}
    ELSE LET lists == call_strategy(strategies[i], nodes, guild_id, shard_count, endpoint)
         IN IF lists = {} THEN {"IndexError"}
            ELSE UNION {IF Len(l) = 1 THEN {l[1]}
                        ELSE IF Len(l) = 0 THEN {"NoNodesAvailable"}
                        ELSE run_strategies(l, strategies, i + 1, guild_id, endpoint)
                        : l \in lists}

\* NodePool.get_node over NodePool.nodes
get_node(guild_id, endpoint, strategies) ==
    run_strategies(pool, IF strategies = <<>> THEN DefaultStrategies ELSE strategies,
                   1, guild_id, endpoint)

\* the endpoints of the voice-server events of the model
Endpoints == {<<"i", "n", "d", "i", "a", "1", ".discord.media">>,
              <<"v", "i", "p", "-", "j", "a", "p", "a", "n", "2", "2",
                ".discord.media">>}

(***************************************************************************)
(* Player                                                                  *)
(***************************************************************************)
\* the labels of an ordered filter mapping
Labels(filters) == {filters[i].label : i \in 1..Len(filters)}

\* OrderedDict.__setitem__: a new key goes last, a known key keeps its place
SetItem(filters, label, filter) ==
    IF label \in Labels(filters)
    THEN [i \in 1..Len(filters) |->
            IF filters[i].label = label
            THEN [label |-> label, filter |-> filter] ELSE filters[i]]
    ELSE Append(filters, [label |-> label, filter |-> filter])

\* OrderedDict.pop of a key the mapping has
Pop(filters, label) ==
    LET keep(e) == e.label # label IN SelectSeq(filters, keep)

\* _dispatch_player_update without the check of the session id of lines
\* 221-223
dispatch_player_update_any_session(r, p) ==
    IF p.node = "none" \/ ~p.server_state.present
    THEN rest
    ELSE [rest EXCEPT ![r].voice = p.node]

\* Player._dispatch_player_update: Node.voice_update is called once the
\* Node, the session id and the server state are all there (the answer to
\* its request changes nothing)
dispatch_player_update(r, p) ==
    IF p.node = "none" \/ p.session_id = None \/ ~p.server_state.present
    THEN rest
    ELSE [rest EXCEPT ![r].voice = p.node]

\* Player.connect: raises NoNodesAvailable when the pool has no Node, else
\* joins the channel through the host (which caches the voice state)
player_connect(r) ==
    /\ pool # <<>>
    /\ own' = [own EXCEPT ![r].connected = TRUE]
    /\ guild_voice' = [guild_voice EXCEPT ![r] = "channel"]
    /\ UNCHANGED <<nodeVars, players, poolVars, taskVars, adopted, call, rest>>

\* Player.on_voice_state_update
on_voice_state_update(r, sid, channel) ==
    LET p == own[r]
        q == [p EXCEPT !.session_id = sid]
    IN /\ IF ~channel
          THEN /\ own' = [own EXCEPT ![r] = cleanup(q)]
               /\ rest' = rest
          ELSE /\ own' = [own EXCEPT ![r] = q]
               /\ rest' = IF sid # p.session_id
                          THEN dispatch_player_update(r, q) ELSE rest
       /\ guild_voice' = [guild_voice EXCEPT ![r] = IF channel THEN "channel"
                                                     ELSE "none"]
       /\ UNCHANGED <<nodeVars, players, poolVars, taskVars, adopted, call>>

\* on_voice_server_update without the comparison of the endpoints of
\* lines 338-339
on_voice_server_update_same_node(r, endpoint, token) ==
    LET p == own[r]
        fetch == \/ p.node = "none"
                 \/ ~p.server_state.present
        found == IF fetch THEN get_node(GuildId(r), endpoint, <<>>) \cap Nodes
                 ELSE {p.node}
    IN /\ \E node \in found :
            LET q == [p EXCEPT !.node = node,
                               !.server_state = [present |-> TRUE, token |-> token,
                                                 endpoint |-> endpoint]]
            IN /\ players' = [players EXCEPT ![node][r] = "own"]
               /\ own' = [own EXCEPT ![r] = q]
               /\ rest' = dispatch_player_update(r, q)
       /\ UNCHANGED <<nodeVars, poolVars, taskVars, adopted, guild_voice, call>>

\* Player.on_voice_server_update (when get_node raises, nothing changes)
on_voice_server_update(r, endpoint, token) ==
    LET p == own[r]
        fetch == \/ p.node = "none"
                 \/ ~p.server_state.present
                 \/ p.server_state.endpoint # endpoint
        found == IF fetch THEN get_node(GuildId(r), endpoint, <<>>) \cap Nodes
                 ELSE {p.node}
    IN /\ \E node \in found :
            LET q == [p EXCEPT !.node = node,
                               !.server_state = [present |-> TRUE, token |-> token,
                                                 endpoint |-> endpoint]]
            IN /\ players' = [players EXCEPT ![node][r] = "own"]
               /\ own' = [own EXCEPT ![r] = q]
               /\ rest' = dispatch_player_update(r, q)
       /\ UNCHANGED <<nodeVars, poolVars, taskVars, adopted, guild_voice, call>>

\* the arguments of the calls of the model
PlayedTrack == [id |-> 7, length |-> 100, position |-> 0]
NextTrack == [id |-> 8, length |-> 100, position |-> 0]
AddedFilter == [timescale |-> 2, volume |-> NoneVolume]

\* add_filter, remove_filter and clear_filters change the filter mapping
\* before _update_filters calls Player.update
before_update_filters(p, op) ==
    CASE op = "add_filter" -> [p EXCEPT !.filters = SetItem(@, "x", AddedFilter)]
      [] op = "remove_filter" -> [p EXCEPT !.filters = Pop(@, "x")]
      [] op = "clear_filters" -> [p EXCEPT !.filters = <<>>]
      [] OTHER -> p

\* Player.update, lines 532-536: play and stop pass a track, seek a position
before_request(p, op) ==
    CASE op = "play" -> [p EXCEPT !.current = PlayedTrack]
      [] op = "play_next" -> [p EXCEPT !.current = NextTrack]
      [] op = "stop" -> [p EXCEPT !.current = NoTrack]
      [] op = "seek" -> [p EXCEPT !.position = 40]
      [] OTHER -> p

\* A mutating call up to its first await.  remove_filter pops the label
\* (KeyError when it is not there); Player.update raises PlayerNotConnected
\* without a Node or when not connected, else it sets the cached fields and
\* sends the request through Node.update.  A session has one call at a time.
Call(r, op) ==
    /\ call[r].pc # "awaiting"
    /\ LET p == own[r]
           q == before_update_filters(p, op)
       IN IF op = "remove_filter" /\ "x" \notin Labels(p.filters)
          THEN /\ call' = [call EXCEPT ![r] =
                             [op |-> op, pc |-> "raised", result |-> "KeyError"]]
               /\ UNCHANGED <<own, rest>>
          ELSE IF q.node = "none" \/ ~q.connected
          THEN /\ call' = [call EXCEPT ![r] =
                             [op |-> op, pc |-> "raised",
                              result |-> "PlayerNotConnected"]]
               /\ own' = [own EXCEPT ![r] = q]
               /\ UNCHANGED rest
          ELSE /\ call' = [call EXCEPT ![r] =
                             [op |-> op, pc |-> "awaiting", result |-> "none"]]
               /\ own' = [own EXCEPT ![r] = before_request(q, op)]
               /\ rest' = [rest EXCEPT ![r].update = q.node]
    /\ UNCHANGED <<nodeVars, players, poolVars, taskVars, adopted, guild_voice>>

update(r) == Call(r, "update")
play(r) == Call(r, "play")
\* Player.play with the next track of the host's queue
play_next(r) == Call(r, "play_next")
pause(r) == Call(r, "pause")
resume(r) == Call(r, "resume")
stop(r) == Call(r, "stop")
seek(r) == Call(r, "seek")
set_volume(r) == Call(r, "set_volume")
add_filter(r) == Call(r, "add_filter")
remove_filter(r) == Call(r, "remove_filter")
clear_filters(r) == Call(r, "clear_filters")

\* Player.update, lines 538-550: the request is answered; a status outside
\* 2xx raises out of the call, else pause and resume set the paused flag
update_response(r) ==
    /\ call[r].pc = "awaiting"
    /\ \E ok \in BOOLEAN :
         /\ own' = IF ok /\ call[r].op \in {"pause", "resume"}
                   THEN [own EXCEPT ![r].paused = (call[r].op = "pause")]
                   ELSE own
         /\ call' = [call EXCEPT ![r] =
                       IF ok THEN NoCall
                       ELSE [NoCall EXCEPT !.pc = "failed", !.result = "HTTPException"]]
    /\ rest' = [rest EXCEPT ![r].update = "none"]
    /\ UNCHANGED <<nodeVars, players, poolVars, taskVars, adopted, guild_voice>>

(***************************************************************************)
(* The connection of one Node                                              *)
(***************************************************************************)
Init ==
    /\ ws = [n \in Nodes |-> None]
    /\ available = [n \in Nodes |-> FALSE]
    /\ ready = [n \in Nodes |-> FALSE]
    /\ session_id = [n \in Nodes |-> None]
    /\ version_checked = [n \in Nodes |-> FALSE]
    /\ stats = [n \in Nodes |-> NoStats]
    /\ players = [n \in Nodes |-> NoPlayers]
    /\ pool = <<>>
    /\ config = [n \in Nodes |-> NoConfig]
    /\ node_label = [n \in Nodes |-> n]
    /\ shard_count = None
    /\ selection = NoSelection
    /\ removal = NoRemoval
    /\ http = NoHttp
    /\ merged = NoMerge
    /\ inbox = [n \in Nodes |-> <<>>]
    /\ handled = NoHandled
    /\ ctask = [n \in Nodes |-> [k \in TaskIds |-> NoTask]]
    /\ lst = [n \in Nodes |-> [k \in TaskIds |-> NoListener]]
    /\ hmsg = [n \in Nodes |-> [k \in TaskIds |-> "none"]]
    /\ sock = [n \in Nodes |-> [k \in TaskIds |-> NoSocket]]
    /\ srv = [n \in Nodes |-> [sess |-> None, remote |-> [r \in Rooms |-> NoRemote]]]
    /\ own = [r \in Rooms |-> NewPlayer("none")]
    /\ adopted = [n \in Nodes |-> [r \in Rooms |-> NewPlayer("none")]]
    /\ guild_voice = [r \in Rooms |-> "none"]
    /\ call = [r \in Rooms |-> NoCall]
    /\ rest = [r \in Rooms |-> NoRequest]

connect(n) ==
    \E k \in TaskIds :
        \/ check_version(n, k)
        \/ ws_connect_ok(n, k)
        \/ ws_connect_fail(n, k)
        \/ backoff_done(n, k)
        \/ ready_wait_done(n, k)
        \/ ready_timeout(n, k)

sync_players(n) ==
    \E k \in TaskIds :
        \/ sync_response(n, k)
        \/ \E r \in Rooms : remove_unknown_player(n, k, r)
        \/ \E r \in Rooms : remove_unknown_player_fail(n, k, r)

ws_listener(n) ==
    \E k \in TaskIds :
        \/ recv_ready(n, k)
        \/ configure_done(n, k)
        \/ configure_fail(n, k)
        \/ server_close(n, k)
        \/ listener_closed(n, k)
        \/ listener_wake(n, k)

Next ==
    \/ add_node("a")
    \/ connect("a")
    \/ \E k \in TaskIds : sync_response("a", k)
    \/ ws_listener("a")

Spec == Init /\ [][Next]_vars

(***************************************************************************)
(* Claims about the connection                                             *)
(***************************************************************************)
\* the connect() invocations the listener k of Node n has scheduled
Scheduled(n, k) ==
    {j \in TaskIds : ctask[n][j].origin = "listener" /\ ctask[n][j].by = k}
\* a reconnect is scheduled or running on Node n
ReconnectPending(n) ==
    \E k \in TaskIds : lst[n][k].pc = "sleep" \/ Running(ctask[n][k].pc)
\* the dispatch loop of Node n has seen a transport close
CloseSeen(n) == \E k \in TaskIds : lst[n][k].pc \in {"sleep", "returned"}

\* invocation k of Node n is at the end of its sync_players(): it awaits
\* the answer of the server, or the gather() of its adds and removals
SyncEnding(n, k) == ctask[n][k].pc \in {"syncreq", "synced"}

\* C1: every step that sets a Node's available flag is the last step of a
\* connect() invocation whose own sync_players() has completed without
\* raising: the flag never turns true in another step, and an invocation
\* never completes from a point before its reconciliation or with removals
\* left or with an error.
C1_AvailableAfterSync ==
    [][\A n \in Nodes :
         /\ \A k \in TaskIds :
              (ctask[n][k].pc # "done" /\ ctask'[n][k].pc = "done")
                => /\ SyncEnding(n, k)
                   /\ ctask'[n][k].removing = {}
                   /\ ctask'[n][k].err = ""
                   /\ available'[n]
         /\ (~available[n] /\ available'[n])
              => \E k \in TaskIds : /\ SyncEnding(n, k)
                                    /\ ctask'[n][k].pc = "done"]_vars

\* C1 witness: a reconnect scheduled by the dispatch loop has completed and
\* the Node is available.
C1_Witness ==
    \E k \in TaskIds : /\ ctask["a"][k].origin = "listener"
                       /\ ctask["a"][k].pc = "done"
                       /\ available["a"]

\* C2: the step of the dispatch loop that handles a transport close leaves
\* the Node with available false and no socket, a listener schedules a
\* connect() only from the sleep that follows that step, and every close it
\* handled has exactly one connect() scheduled once the listener returned
\* (none before).
C2_CloseThenOneReconnect ==
    [][\A n \in Nodes : \A k \in TaskIds :
         /\ (lst[n][k].pc = "recv" /\ lst'[n][k].pc = "sleep")
              => (~available'[n] /\ ws'[n] = None)
         /\ (lst[n][k].pc # "returned" /\ lst'[n][k].pc = "returned")
              => lst[n][k].pc = "sleep"
         /\ Cardinality(Scheduled(n, k))' =
              IF lst'[n][k].pc = "returned" THEN 1 ELSE 0]_vars

\* C2 witness: the listener of a Node that was available received the close
\* and has scheduled its one reconnect.
C2_Witness ==
    \E k \in TaskIds : /\ lst["a"][k].pc = "returned"
                       /\ lst["a"][k].was_available
                       /\ Cardinality(Scheduled("a", k)) = 1

\* C3: a Node whose available flag is true holds a socket on which it has
\* received `ready`.
C3_AvailableIsConnectedAndReady ==
    \A n \in Nodes :
        available[n] => (ws[n] # None /\ sock[n][ws[n]].rdy = "taken" /\ ready[n])

\* C4: after a transport close, a Node that is not available has a
\* reconnect scheduled or running (every failed attempt is followed by a
\* further one).
C4_ReconnectRetriedUntilAvailable ==
    \A n \in Nodes :
        (CloseSeen(n) /\ ~available[n]) => ReconnectPending(n)

(***************************************************************************)
(* Reconciliation: sync_players from every local and remote room set       *)
(***************************************************************************)
\* the player payloads the server of the model reports
RemotePlaying ==
    [present |-> TRUE, track |-> 7, length |-> 100, position |-> 40,
     paused |-> TRUE,
     filters |-> [keys |-> {"timescale", "volume"}, timescale |-> 2, volume |-> 50],
     voice_session |-> 5, token |-> 6,
     endpoint |-> <<"u", "s", "1", ".discord.media">>, ping |-> 20]
RemoteIdle ==
    [present |-> TRUE, track |-> None, length |-> 0, position |-> 0,
     paused |-> FALSE, filters |-> EmptyFilters,
     voice_session |-> 8, token |-> 6,
     endpoint |-> <<"u", "s", "1", ".discord.media">>, ping |-> 20]

\* a session the host connected, bound to Node a and playing
LocalPlayer ==
    [NewPlayer("a") EXCEPT
       !.session_id = 3,
       !.server_state = [present |-> TRUE, token |-> 4,
                         endpoint |-> <<"u", "s", "1", ".discord.media">>],
       !.connected = TRUE, !.position = 10, !.ping = 15,
       !.current = [id |-> 9, length |-> 200, position |-> 0]]

\* a session an earlier reconciliation adopted
AdoptedPlayer == set_state(NewPlayer("none"), RemotePlaying)

\* Node a had connected (task 1, socket 1, session 1) and lost its socket;
\* the reconnect its listener scheduled (task 2) resumed the session on
\* socket 2, received `ready` and has requested the players of the session.
\* The rooms of L hold sessions of the host, those of A adopted ones; the
\* server reports any set of rooms; the client is open (not is_closed())
\* and has every guild in its cache.
InitSync ==
    /\ ws = [n \in Nodes |-> IF n = "a" THEN 2 ELSE None]
    /\ available = [n \in Nodes |-> FALSE]
    /\ ready = [n \in Nodes |-> n = "a"]
    /\ session_id = [n \in Nodes |-> IF n = "a" THEN 1 ELSE None]
    /\ version_checked = [n \in Nodes |-> n = "a"]
    /\ stats = [n \in Nodes |-> NoStats]
    /\ pool = <<"a">>
    /\ config = [n \in Nodes |-> NoConfig]
    /\ node_label = [n \in Nodes |-> n]
    /\ shard_count = None
    /\ selection = NoSelection
    /\ removal = NoRemoval
    /\ http = NoHttp
    /\ merged = NoMerge
    /\ inbox = [n \in Nodes |-> <<>>]
    /\ handled = NoHandled
    /\ ctask = [n \in Nodes |-> [k \in TaskIds |->
                  IF n = "a" /\ k = 1
                  THEN [NoTask EXCEPT !.pc = "done", !.origin = "caller", !.sid = 1]
                  ELSE IF n = "a" /\ k = 2
                  THEN [NoTask EXCEPT !.pc = "syncreq", !.origin = "listener",
                                      !.by = 1, !.sid = 1]
                  ELSE NoTask]]
    /\ lst = [n \in Nodes |-> [k \in TaskIds |->
                IF n = "a" /\ k = 1
                THEN [NoListener EXCEPT !.pc = "returned", !.was_available = TRUE]
                ELSE IF n = "a" /\ k = 2
                THEN [NoListener EXCEPT !.pc = "recv", !.sock = 2]
                ELSE NoListener]]
    /\ hmsg = [n \in Nodes |-> [k \in TaskIds |->
                 IF n = "a" /\ k \in {1, 2} THEN "done" ELSE "none"]]
    /\ sock = [n \in Nodes |-> [k \in TaskIds |->
                 IF n = "a" /\ k = 1
                 THEN [st |-> "closed", rdy |-> "taken", resumed |-> FALSE, sid |-> 1]
                 ELSE IF n = "a" /\ k = 2
                 THEN [st |-> "open", rdy |-> "taken", resumed |-> TRUE, sid |-> 1]
                 ELSE NoSocket]]
    /\ \E remote \in [Rooms -> {NoRemote, RemotePlaying, RemoteIdle}] :
         srv = [n \in Nodes |-> IF n = "a" THEN [sess |-> 1, remote |-> remote]
                                ELSE [sess |-> None, remote |-> [r \in Rooms |-> NoRemote]]]
    /\ \E L \in SUBSET Rooms : \E A \in SUBSET (Rooms \ L) :
         /\ players = [n \in Nodes |->
                         IF n = "a"
                         THEN [r \in Rooms |-> IF r \in L THEN "own"
                                               ELSE IF r \in A THEN "adopted" ELSE "none"]
                         ELSE NoPlayers]
         /\ own = [r \in Rooms |-> IF r \in L THEN LocalPlayer ELSE NewPlayer("none")]
         /\ adopted = [n \in Nodes |-> [r \in Rooms |->
                         IF n = "a" /\ r \in A THEN AdoptedPlayer ELSE NewPlayer("none")]]
         /\ guild_voice \in [Rooms -> {"none", "no_channel", "channel"}]
         /\ \A r \in L \cup A : guild_voice[r] = "channel"
    /\ call = [r \in Rooms |-> NoCall]
    /\ rest = [r \in Rooms |-> NoRequest]

NextSync ==
    \/ sync_players("a")
    \/ \E k \in TaskIds : set_available("a", k)

SpecSync == InitSync /\ [][NextSync]_vars

\* the rooms of the player map of Node n
PlayerIds(n) == {r \in Rooms : players[n][r] # "none"}
\* the rooms the server of Node n reports
RemoteIds(n) == {r \in Rooms : srv[n].remote[r].present}
\* sync_players() of invocation k of Node n has completed without raising
SyncDone(n, k) == ctask[n][k].pc \in {"synced", "done"} /\ ctask[n][k].sid # None
                  /\ ctask[n][k].origin = "listener"
\* the rooms of the player map when invocation k took its diff
ExpectedIds(n, k) == {r \in Rooms : ctask[n][k].expected[r] # "none"}

Reported(state, p) ==
    /\ p.current = IF state.track = None THEN NoTrack
                   ELSE [id |-> state.track, length |-> state.length,
                         position |-> state.position]
    /\ Len(p.filters) = 1
    /\ p.filters[1].label = "RESUME"
    /\ p.filters[1].filter.timescale =
           IF "timescale" \in state.filters.keys THEN state.filters.timescale ELSE None
    /\ p.filters[1].filter.volume =
           IF "volume" \in state.filters.keys THEN state.filters.volume ELSE NoneVolume
    /\ p.paused = state.paused
    /\ p.session_id = state.voice_session
    /\ p.server_state = [present |-> TRUE, token |-> state.token,
                         endpoint |-> state.endpoint]

\* after a completed sync_players(): room r, reported and not in the map
\* before, is registered with a session that has what the server reported
Adopted(n, r) ==
    /\ players[n][r] = "adopted"
    /\ Reported(srv[n].remote[r], adopted[n][r])

\* room r, in the map before and not reported, is force-disconnected and
\* unregistered
TornDown(n, k, r) ==
    /\ players[n][r] = "none"
    /\ guild_voice[r] = "none"
    /\ LET p == Deref(n, r, ctask[n][k].expected[r])
       IN ~p.connected /\ p.current = NoTrack

\* no step changes a session whose room is in the map and reported
BothUntouched(n) ==
    \A r \in Rooms :
        (players[n][r] # "none" /\ srv[n].remote[r].present)
            => /\ players'[n][r] = players[n][r]
               /\ own'[r] = own[r]
               /\ adopted'[n][r] = adopted[n][r]

MaxSessions == 1
PoolRooms == 1..MaxSessions

\* Both Nodes were added to the pool and are connected (task 1, socket 1,
\* session 1 of their servers); the host has created the Player of each
\* room, with or without a `node` argument.
InitPool ==
    /\ ws = [n \in Nodes |-> 1]
    /\ available = [n \in Nodes |-> TRUE]
    /\ ready = [n \in Nodes |-> TRUE]
    /\ session_id = [n \in Nodes |-> 1]
    /\ version_checked = [n \in Nodes |-> TRUE]
    /\ stats = [n \in Nodes |-> NoStats]
    /\ players = [n \in Nodes |-> NoPlayers]
    /\ pool = <<"a", "b">>
    /\ config = [n \in Nodes |-> NoConfig]
    /\ node_label = [n \in Nodes |-> n]
    /\ shard_count = None
    /\ selection = NoSelection
    /\ removal = NoRemoval
    /\ http = NoHttp
    /\ merged = NoMerge
    /\ inbox = [n \in Nodes |-> <<>>]
    /\ handled = NoHandled
    /\ ctask = [n \in Nodes |-> [k \in TaskIds |->
                  IF k = 1
                  THEN [NoTask EXCEPT !.pc = "done", !.origin = "caller", !.sid = 1]
                  ELSE NoTask]]
    /\ lst = [n \in Nodes |-> [k \in TaskIds |->
                IF k = 1 THEN [NoListener EXCEPT !.pc = "recv", !.sock = 1]
                ELSE NoListener]]
    /\ hmsg = [n \in Nodes |-> [k \in TaskIds |-> IF k = 1 THEN "done" ELSE "none"]]
    /\ sock = [n \in Nodes |-> [k \in TaskIds |->
                 IF k = 1
                 THEN [st |-> "open", rdy |-> "taken", resumed |-> FALSE, sid |-> 1]
                 ELSE NoSocket]]
    /\ srv = [n \in Nodes |-> [sess |-> 1, remote |-> [r \in Rooms |-> NoRemote]]]
    /\ \E arg \in [PoolRooms -> Nodes \cup {"none"}] :
         own = [r \in Rooms |-> IF r \in PoolRooms THEN NewPlayer(arg[r])
                                ELSE NewPlayer("none")]
    /\ adopted = [n \in Nodes |-> [r \in Rooms |-> NewPlayer("none")]]
    /\ guild_voice = [r \in Rooms |-> "none"]
    /\ call = [r \in Rooms |-> NoCall]
    /\ rest = [r \in Rooms |-> NoRequest]

NextPool ==
    \/ \E n \in Nodes, k \in TaskIds : server_close(n, k)
    \/ \E n \in Nodes, k \in TaskIds : listener_closed(n, k)
    \/ \E r \in PoolRooms :
         \/ player_connect(r)
         \/ \E channel \in BOOLEAN : on_voice_state_update(r, 3, channel)
         \/ \E endpoint \in Endpoints : on_voice_server_update(r, endpoint, 4)
         \/ update(r)
         \/ play(r)
         \/ pause(r)
         \/ resume(r)
         \/ stop(r)
         \/ seek(r)
         \/ set_volume(r)
         \/ add_filter(r)
         \/ remove_filter(r)
         \/ clear_filters(r)
         \/ update_response(r)

SpecPool == InitPool /\ [][NextPool]_vars

\* C5: NodePool.get_node never returns a Node whose available flag is
\* false, whatever the guild and the endpoint it is called with.
C5_GetNodeReturnsAvailable ==
    \A r \in Rooms : \A endpoint \in Endpoints \cup {NoEndpoint} :
        \A node \in get_node(GuildId(r), endpoint, <<>>) \cap Nodes :
            available[node]

\* C8: a session is registered in the player map of at most one Node.
C8_OneNodePerSession ==
    \A r \in Rooms : Cardinality({n \in Nodes : players[n][r] = "own"}) <= 1

\* a mutating call of the session of room r is made in this step
CallMade(r) == call'[r] # call[r] /\ call'[r].pc \in {"raised", "awaiting"}

\* C9: a mutating call on a session that has no Node or whose connectivity
\* flag is false raises PlayerNotConnected and sends no request.
C9_NotConnectedRaises ==
    [][\A r \in Rooms :
         (CallMade(r) /\ (own[r].node = "none" \/ ~own[r].connected))
            => /\ call'[r].pc = "raised"
               /\ call'[r].result = "PlayerNotConnected"
               /\ rest'[r] = rest[r]]_vars

\* C10: an update request is sent for a session only when the session has
\* a Node and its session id, token and endpoint have all been delivered.
C10_UpdateNeedsCredentials ==
    [][\A r \in Rooms :
         (rest'[r].update # rest[r].update /\ rest'[r].update # "none")
            => /\ own[r].node # "none"
               /\ own[r].session_id # None
               /\ own[r].server_state.present]_vars

(***************************************************************************)
(* The strategies, applied to a pool of two connected Nodes                *)
(***************************************************************************)
\* rooms a Node is asked for
MaxGuilds == 2
Guilds == 1..MaxGuilds

\* the shard_ids and regions arguments the Nodes of the model are made with
ShardArgs == {[given |-> FALSE, ids |-> {}], [given |-> TRUE, ids |-> {0}]}
RegionArgs == {<<>>, <<INDIA>>, <<EAST_ASIA>>}
\* the registries, and the strategies arguments of NodePool.get_node (<<>>
\* stands for None)
NodeLists == {<<>>, <<"a">>, <<"a", "b">>}
StrategyLists == {<<>>, <<"RANDOM">>, <<"USAGE", "SHARD">>}
\* an endpoint _REGION_REGEX does not match
Localhost == <<"l", "o", "c", "a", "l", "h", "o", "s", "t">>
\* the strategy calls of the model: the rooms vary for the strategy that
\* reads guild_id, the endpoints for the one that reads endpoint
StrategyCalls ==
    ({"SHARD"} \X Guilds \X {NoEndpoint})
    \cup ({"LOCATION"} \X {1} \X (Endpoints \cup {NoEndpoint, Localhost}))
    \cup ({"RANDOM", "USAGE"} \X {1} \X {NoEndpoint})
GetNodeCalls ==
    Guilds \X {NoEndpoint, <<"i", "n", "d", "i", "a", "1", ".discord.media">>}
           \X StrategyLists

\* Both Nodes are connected as in InitPool; their shard_ids and regions,
\* the last stats frame of each, the shard count of the client and the
\* registry are drawn.
InitStrategy ==
    /\ ws = [n \in Nodes |-> 1]
    /\ available = [n \in Nodes |-> TRUE]
    /\ ready = [n \in Nodes |-> TRUE]
    /\ session_id = [n \in Nodes |-> 1]
    /\ version_checked = [n \in Nodes |-> TRUE]
    /\ stats \in [Nodes -> StatsFrames \cup {NoStats}]
    /\ players = [n \in Nodes |-> NoPlayers]
    /\ pool \in NodeLists
    /\ \E regions \in [Nodes -> RegionArgs], shard_ids \in [Nodes -> ShardArgs] :
         config = [n \in Nodes |-> NodeConfig(regions[n], shard_ids[n])]
    /\ node_label = [n \in Nodes |-> n]
    /\ shard_count \in {None, 2}
    /\ selection = NoSelection
    /\ removal = NoRemoval
    /\ http = NoHttp
    /\ merged = NoMerge
    /\ inbox = [n \in Nodes |-> <<>>]
    /\ handled = NoHandled
    /\ ctask = [n \in Nodes |-> [k \in TaskIds |->
                  IF k = 1
                  THEN [NoTask EXCEPT !.pc = "done", !.origin = "caller", !.sid = 1]
                  ELSE NoTask]]
    /\ lst = [n \in Nodes |-> [k \in TaskIds |->
                IF k = 1 THEN [NoListener EXCEPT !.pc = "recv", !.sock = 1]
                ELSE NoListener]]
    /\ hmsg = [n \in Nodes |-> [k \in TaskIds |-> IF k = 1 THEN "done" ELSE "none"]]
    /\ sock = [n \in Nodes |-> [k \in TaskIds |->
                 IF k = 1
                 THEN [st |-> "open", rdy |-> "taken", resumed |-> FALSE, sid |-> 1]
                 ELSE NoSocket]]
    /\ srv = [n \in Nodes |-> [sess |-> 1, remote |-> [r \in Rooms |-> NoRemote]]]
    /\ own = [r \in Rooms |-> NewPlayer("none")]
    /\ adopted = [n \in Nodes |-> [r \in Rooms |-> NewPlayer("none")]]
    /\ guild_voice = [r \in Rooms |-> "none"]
    /\ call = [r \in Rooms |-> NoCall]
    /\ rest = [r \in Rooms |-> NoRequest]

\* call_strategy(strategy, nodes, guild_id, shard_count, endpoint) on the
\* registry
strategy_call(strategy, guild_id, endpoint) ==
    LET lists == call_strategy(strategy, pool, guild_id, shard_count, endpoint)
    IN /\ \E out \in (IF lists = {} THEN {"IndexError"} ELSE lists) :
            selection' = [op |-> strategy, nodes |-> pool, guild_id |-> guild_id,
                          endpoint |-> endpoint, strategies |-> <<>>,
                          out |-> out]
       /\ UNCHANGED <<nodeVars, players, pool, config, node_label,
                      shard_count, removal, taskVars, playerVars, http,
                      merged, inbox, handled>>

\* NodePool.get_node(guild_id=..., endpoint=..., strategies=...)
get_node_call(guild_id, endpoint, strategies) ==
    /\ \E out \in get_node(guild_id, endpoint, strategies) :
         selection' = [op |-> "get_node", nodes |-> pool, guild_id |-> guild_id,
                       endpoint |-> endpoint, strategies |-> strategies,
                       out |-> out]
    /\ UNCHANGED <<nodeVars, players, pool, config, node_label, shard_count,
                   removal, taskVars, playerVars, http, merged, inbox, handled>>

NextStrategy ==
    \/ \E c \in StrategyCalls : strategy_call(c[1], GuildId(c[2]), c[3])
    \/ \E c \in GetNodeCalls : get_node_call(GuildId(c[1]), c[2], c[3])

SpecStrategy == InitStrategy /\ [][NextStrategy]_vars

(***************************************************************************)
(* Claims about the strategies                                             *)
(***************************************************************************)
\* the strategies get_node runs for its strategies argument
ActualStrategies(strategies) ==
    IF strategies = <<>> THEN DefaultStrategies ELSE strategies

\* the candidate lists strategy k of S may return when every strategy before
\* it left several candidates
RECURSIVE After(_, _, _, _)
After(S, k, guild_id, endpoint) ==
    IF k = 1 THEN call_strategy(S[1], pool, guild_id, shard_count, endpoint)
    ELSE UNION {call_strategy(S[k], l, guild_id, shard_count, endpoint) :
                  l \in {x \in After(S, k - 1, guild_id, endpoint) : Len(x) >= 2}}

Items(list) == {list[i] : i \in 1..Len(list)}

\* the get_node call recorded in c ended as the pipeline rule says
PipelineOutcome(c) ==
    LET S == ActualStrategies(c.strategies)
        lists(k) == After(S, k, c.guild_id, c.endpoint)
    IN \/ \E k \in 1..Len(S) : \E l \in lists(k) : Len(l) = 1 /\ c.out = l[1]
       \/ \E k \in 1..Len(S) : \E l \in lists(k) :
             Len(l) = 0 /\ c.out = "NoNodesAvailable"
       \/ \E l \in lists(Len(S)) : Len(l) >= 2 /\ c.out \in Items(l)
       \/ /\ c.out = "IndexError"
          /\ S[1] = "RANDOM" /\ pool = <<>>

Sublist(out, nodes) ==
    /\ Items(out) \subseteq Items(nodes)
    /\ \A i, j \in 1..Len(out) : i < j =>
          \E p, q \in 1..Len(nodes) : p < q /\ nodes[p] = out[i] /\ nodes[q] = out[j]

\* the shard of a room: (room_id >> 22) mod shard_count, 1 when unknown
ShardOf(guild_id) ==
    (guild_id \div 4194304) % (IF shard_count = None THEN 1 ELSE shard_count)

\* C12: the Shard strategy keeps exactly the candidates whose shard_ids is
\* None or contains (room_id >> 22) mod shard_count, with shard_count taken
\* as 1 when it is unknown; with two shards a room of shard 0 is given only
\* Nodes whose shard_ids is None or contains 0.
C12_ShardKeepsMatching ==
    selection.op = "SHARD" =>
        /\ Sublist(selection.out, selection.nodes)
        /\ \A n \in Items(selection.nodes) :
              n \in Items(selection.out) <=>
                 (~config[n].sharded
                    \/ ShardOf(selection.guild_id) \in config[n].shard_ids)
        /\ (shard_count = 2 /\ (selection.guild_id \div 4194304) % 2 = 0) =>
              \A n \in Items(selection.out) :
                 ~config[n].sharded \/ 0 \in config[n].shard_ids

\* with two shards, a room of shard 1 was given the unrestricted Node b and
\* not Node a, which serves shard 0
C12_Witness ==
    /\ selection.op = "SHARD"
    /\ shard_count = 2
    /\ ShardOf(selection.guild_id) = 1
    /\ selection.nodes = <<"a", "b">>
    /\ config["a"].sharded /\ config["a"].shard_ids = {0}
    /\ ~config["b"].sharded
    /\ selection.out = <<"b">>

\* the region names Node n is configured for: the values of the VoiceRegion
\* members of its regions argument, those of a Region or Group included
RECURSIVE Names(_)
Names(item) ==
    IF item.type = "VoiceRegion" THEN {item.value}
    ELSE UNION {Names(item.value[i]) : i \in 1..Len(item.value)}

ConfiguredFor(n) ==
    UNION {Names(config[n].regions[i]) : i \in 1..Len(config[n].regions)}

\* C13: the Location strategy never returns an empty list for a non-empty
\* input; without an endpoint, with an endpoint the region pattern does not
\* match, or with no candidate configured for the region of the endpoint,
\* it returns its input unchanged.
C13_LocationFallsBack ==
    selection.op = "LOCATION" =>
        /\ selection.nodes # <<>> => selection.out # <<>>
        /\ (\/ selection.endpoint = NoEndpoint
            \/ ~region_match(selection.endpoint).ok
            \/ \A n \in Items(selection.nodes) :
                  region_match(selection.endpoint).region \notin ConfiguredFor(n))
              => selection.out = selection.nodes

\* the endpoint names japan, both candidates are configured for india only,
\* and both were returned
C13_Witness ==
    /\ selection.op = "LOCATION"
    /\ selection.nodes = <<"a", "b">>
    /\ region_match(selection.endpoint).ok
    /\ region_match(selection.endpoint).region = JAPAN.value
    /\ \A n \in Nodes : ConfiguredFor(n) = {INDIA.value}
    /\ selection.out = <<"a", "b">>

\* C14: when the endpoint parses to a region and some candidate is
\* configured for that region, the Location strategy returns every candidate
\* configured for it and no candidate configured for other regions only.
C14_LocationKeepsConfigured ==
    (/\ selection.op = "LOCATION"
     /\ selection.endpoint # NoEndpoint
     /\ region_match(selection.endpoint).ok
     /\ \E n \in Items(selection.nodes) :
           region_match(selection.endpoint).region \in ConfiguredFor(n))
      => \A n \in Items(selection.nodes) :
            LET r == region_match(selection.endpoint).region
            IN /\ r \in ConfiguredFor(n) => n \in Items(selection.out)
               /\ (config[n].regional /\ r \notin ConfiguredFor(n))
                     => n \notin Items(selection.out)

\* C15: when the Location strategy narrows its input to the Nodes of a
\* region, the candidates with regions None are in the result.
C15_NoRegionsKeptWhenNarrowed ==
    (selection.op = "LOCATION" /\ selection.out # selection.nodes)
      => \A n \in Items(selection.nodes) :
            ~config[n].regional => n \in Items(selection.out)

\* the Location strategy returned fewer candidates than it was given
LocationNarrowed ==
    selection.op = "LOCATION" /\ Len(selection.out) < Len(selection.nodes)

\* Node n has the lowest weight of the list
Lightest(n, nodes) == \A m \in Items(nodes) : weight(n) <= weight(m)

\* C16: the Usage strategy returns exactly the candidates of minimum weight:
\* a non-empty list for a non-empty input, every Node of it of the minimum
\* weight, and every candidate of the minimum weight in it.
C16_UsageKeepsLightest ==
    selection.op = "USAGE" =>
        /\ Sublist(selection.out, selection.nodes)
        /\ selection.nodes # <<>> => selection.out # <<>>
        /\ \A n \in Items(selection.nodes) :
              n \in Items(selection.out) <=> Lightest(n, selection.nodes)

\* both Nodes have stats; Node a plays nothing on a loaded machine, Node b
\* plays one track on an idle one, and only b was kept
C16_Witness ==
    /\ selection.op = "USAGE"
    /\ selection.nodes = <<"a", "b">>
    /\ stats["a"].present /\ stats["b"].present
    /\ stats["a"].playing_player_count < stats["b"].playing_player_count
    /\ selection.out = <<"b">>

BoundTo(n) == {r \in Rooms : players[n][r] # "none"}

\* lines 238-263 and 277: the Node is closed without the del of line 242
remove_node_keeping_registration(n, transfer_players) ==
    /\ removal.pc = "idle"
    /\ Registered(n)
    /\ removal' = [pc |-> IF BoundTo(n) = {} THEN "closing" ELSE "gathering",
                   node |-> n, transfer_players |-> transfer_players,
                   closed |-> FALSE,
                   task |-> [r \in Rooms |->
                               IF r \in BoundTo(n) THEN [NoOp EXCEPT !.pc = "created"]
                               ELSE NoOp]]
    /\ UNCHANGED <<nodeVars, players, pool, config, node_label, shard_count,
                   selection, taskVars, playerVars, http, merged,
                   inbox, handled>>

\* NodePool.remove_node up to its first suspension: the label is deleted
\* from _nodes (a label that is no key raises KeyError), one coroutine is
\* made for each player of the Node, and gather() is awaited; without
\* players gather() does not suspend and node.close() is awaited.
remove_node(n, transfer_players) ==
    /\ removal.pc = "idle"
    /\ Registered(n)
    /\ pool' = SelectSeq(pool, LAMBDA x : x # n)
    /\ removal' = [pc |-> IF BoundTo(n) = {} THEN "closing" ELSE "gathering",
                   node |-> n, transfer_players |-> transfer_players,
                   closed |-> FALSE,
                   task |-> [r \in Rooms |->
                               IF r \in BoundTo(n) THEN [NoOp EXCEPT !.pc = "created"]
                               ELSE NoOp]]
    /\ UNCHANGED <<nodeVars, players, config, node_label, shard_count,
                   selection, taskVars, playerVars, http, merged,
                   inbox, handled>>

\* Player.endpoint: the endpoint of the last voice-server event, or None
endpoint(p) ==
    IF p.server_state.present THEN p.server_state.endpoint ELSE NoEndpoint

\* Player.destroy up to its first suspension.  A connected player awaits
\* change_voice_state in disconnect(); otherwise disconnect() returns at
\* once, the player is removed from its Node and the DELETE request is
\* awaited.
destroy_pc(r) ==
    IF own[r].connected THEN "disconnect"
    ELSE IF own[r].node # "none" THEN "destroy" ELSE "done"

remove_player(r) ==
    IF ~own[r].connected /\ own[r].node # "none"
    THEN [players EXCEPT ![own[r].node][r] = "none"]
    ELSE players

\* an exception leaves the task of room r: gather() hands the first one to
\* remove_node, which raises it without awaiting the other tasks and
\* without closing the Node
Raise(r, where) ==
    [removal EXCEPT !.task[r].pc = "raised",
                    !.task[r].raised_in = where,
                    !.pc = IF @ = "gathering" THEN "raised" ELSE @]

\* the exceptions the handler of line 253 catches
Caught == {"RuntimeError", "NoNodesAvailable", "PlayerNotConnected"}
\* the exceptions Player.transfer_to may raise: PlayerNotConnected, or the
\* HTTPException of a REST request
TransferErrors == {"PlayerNotConnected", "HTTPException"}

\* transfer_player from its start to its first suspension: get_node either
\* returns the target, and transfer_to is awaited, or raises: for
\* NoNodesAvailable the handler awaits Player.destroy, any other exception
\* (the IndexError of a Random strategy on an empty registry) leaves the
\* task
transfer_player(r) ==
    /\ removal.task[r].pc = "created"
    /\ removal.transfer_players
    /\ \E out \in get_node(GuildId(r), endpoint(own[r]), <<>>) :
         IF out \in Nodes
         THEN /\ removal' = [removal EXCEPT !.task[r].pc = "transfer",
                                            !.task[r].target = out]
              /\ players' = players
         ELSE IF out \in Caught
         THEN /\ removal' = [removal EXCEPT !.task[r].pc = destroy_pc(r),
                                            !.task[r].failed = TRUE]
              /\ players' = remove_player(r)
         ELSE /\ removal' = [Raise(r, "transfer") EXCEPT !.task[r].failed = TRUE]
              /\ players' = players
    /\ UNCHANGED <<nodeVars, pool, config, node_label, shard_count, selection,
                   taskVars, playerVars, http, merged, inbox, handled>>

\* destroy_player from its start to its first suspension
destroy_player(r) ==
    /\ removal.task[r].pc = "created"
    /\ ~removal.transfer_players
    /\ removal' = [removal EXCEPT !.task[r].pc = destroy_pc(r)]
    /\ players' = remove_player(r)
    /\ UNCHANGED <<nodeVars, pool, config, node_label, shard_count, selection,
                   taskVars, playerVars, http, merged, inbox, handled>>

\* Player.transfer_to returned: the player is bound to the target and
\* registered in it, and no longer in the Node it left
transfer_to_done(r) ==
    LET target == removal.task[r].target IN
    /\ removal.task[r].pc = "transfer"
    /\ own' = [own EXCEPT ![r].node = target]
    /\ players' = [players EXCEPT ![own[r].node][r] = "none", ![target][r] = "own"]
    /\ removal' = [removal EXCEPT !.task[r].pc = "done"]
    /\ UNCHANGED <<nodeVars, pool, config, node_label, shard_count, selection,
                   taskVars, adopted, guild_voice, call, rest, http, merged,
                   inbox, handled>>

\* Player.transfer_to raised: a caught exception starts Player.destroy, any
\* other leaves transfer_player
transfer_to_fail(r, err) ==
    /\ removal.task[r].pc = "transfer"
    /\ IF err \in Caught
       THEN /\ removal' = [removal EXCEPT !.task[r].pc = destroy_pc(r),
                                          !.task[r].failed = TRUE]
            /\ players' = remove_player(r)
       ELSE /\ removal' = [Raise(r, "transfer") EXCEPT !.task[r].failed = TRUE]
            /\ players' = players
    /\ UNCHANGED <<nodeVars, pool, config, node_label, shard_count, selection,
                   taskVars, playerVars, http, merged, inbox, handled>>

\* Player.disconnect after change_voice_state returned: cleanup, then
\* Player.destroy removes the player from its Node and awaits the DELETE
disconnect_done(r) ==
    /\ removal.task[r].pc = "disconnect"
    /\ own' = [own EXCEPT ![r] = cleanup(@)]
    /\ players' = IF own[r].node # "none"
                  THEN [players EXCEPT ![own[r].node][r] = "none"] ELSE players
    /\ removal' = [removal EXCEPT !.task[r].pc =
                      IF own[r].node # "none" THEN "destroy" ELSE "done"]
    /\ UNCHANGED <<nodeVars, pool, config, node_label, shard_count, selection,
                   taskVars, adopted, guild_voice, call, rest, http, merged,
                   inbox, handled>>

\* change_voice_state raised: the finally block cleans up and the exception
\* leaves Player.destroy
disconnect_fail(r) ==
    /\ removal.task[r].pc = "disconnect"
    /\ own' = [own EXCEPT ![r] = cleanup(@)]
    /\ removal' = Raise(r, "disconnect")
    /\ UNCHANGED <<nodeVars, players, pool, config, node_label, shard_count,
                   selection, taskVars, adopted, guild_voice, call, rest,
                   http, merged, inbox, handled>>

\* the DELETE request of Node.destroy was answered with a 2xx status
node_destroy_done(r) ==
    /\ removal.task[r].pc = "destroy"
    /\ removal' = [removal EXCEPT !.task[r].pc = "done"]
    /\ UNCHANGED <<nodeVars, players, pool, config, node_label, shard_count,
                   selection, taskVars, playerVars, http, merged,
                   inbox, handled>>

\* the DELETE request was answered with another status: HTTPException
node_destroy_fail(r) ==
    /\ removal.task[r].pc = "destroy"
    /\ removal' = Raise(r, "destroy")
    /\ UNCHANGED <<nodeVars, players, pool, config, node_label, shard_count,
                   selection, taskVars, playerVars, http, merged,
                   inbox, handled>>

\* gather() returns when every task has returned; node.close() is awaited
gather_done ==
    /\ removal.pc = "gathering"
    /\ \A r \in Rooms : removal.task[r].pc \in {"none", "done"}
    /\ removal' = [removal EXCEPT !.pc = "closing"]
    /\ UNCHANGED <<nodeVars, players, pool, config, node_label, shard_count,
                   selection, taskVars, playerVars, http, merged,
                   inbox, handled>>

\* Node.close: the transport of the Node is closed
close ==
    /\ removal.pc = "closing"
    /\ removal' = [removal EXCEPT !.pc = "done", !.closed = TRUE]
    /\ ws' = [ws EXCEPT ![removal.node] = None]
    /\ available' = [available EXCEPT ![removal.node] = FALSE]
    /\ UNCHANGED <<ready, session_id, version_checked, stats, players, pool,
                   config, node_label, shard_count, selection, taskVars,
                   playerVars, http, merged, inbox, handled>>

\* a player the host bound to Node a before the removal
BoundPlayer(connected) ==
    [NewPlayer("a") EXCEPT
        !.session_id = 3,
        !.connected = connected,
        !.server_state = [present |-> TRUE, token |-> 4,
                          endpoint |-> <<"i", "n", "d", "i", "a", "1",
                                         ".discord.media">>]]

\* Node a is connected and registered, Node b is connected and registered
\* or not; some rooms have a player bound to Node a, connected to its voice
\* channel or not.
InitRemove ==
    /\ ws = [n \in Nodes |-> 1]
    /\ available = [n \in Nodes |-> TRUE]
    /\ ready = [n \in Nodes |-> TRUE]
    /\ session_id = [n \in Nodes |-> 1]
    /\ version_checked = [n \in Nodes |-> TRUE]
    /\ stats = [n \in Nodes |-> NoStats]
    /\ pool \in {<<"a">>, <<"a", "b">>}
    /\ config = [n \in Nodes |-> NoConfig]
    /\ node_label = [n \in Nodes |-> n]
    /\ shard_count = None
    /\ selection = NoSelection
    /\ removal = NoRemoval
    /\ http = NoHttp
    /\ merged = NoMerge
    /\ inbox = [n \in Nodes |-> <<>>]
    /\ handled = NoHandled
    /\ ctask = [n \in Nodes |-> [k \in TaskIds |->
                  IF k = 1
                  THEN [NoTask EXCEPT !.pc = "done", !.origin = "caller", !.sid = 1]
                  ELSE NoTask]]
    /\ lst = [n \in Nodes |-> [k \in TaskIds |->
                IF k = 1 THEN [NoListener EXCEPT !.pc = "recv", !.sock = 1]
                ELSE NoListener]]
    /\ hmsg = [n \in Nodes |-> [k \in TaskIds |-> IF k = 1 THEN "done" ELSE "none"]]
    /\ sock = [n \in Nodes |-> [k \in TaskIds |->
                 IF k = 1
                 THEN [st |-> "open", rdy |-> "taken", resumed |-> FALSE, sid |-> 1]
                 ELSE NoSocket]]
    /\ srv = [n \in Nodes |-> [sess |-> 1, remote |-> [r \in Rooms |-> NoRemote]]]
    /\ \E bound \in [Rooms -> {"no", "connected", "disconnected"}] :
         /\ players = [n \in Nodes |-> [r \in Rooms |->
                          IF n = "a" /\ bound[r] # "no" THEN "own" ELSE "none"]]
         /\ own = [r \in Rooms |->
                     IF bound[r] = "no" THEN NewPlayer("none")
                     ELSE BoundPlayer(bound[r] = "connected")]
         /\ guild_voice = [r \in Rooms |->
                             IF bound[r] = "connected" THEN "channel" ELSE "none"]
    /\ adopted = [n \in Nodes |-> [r \in Rooms |-> NewPlayer("none")]]
    /\ call = [r \in Rooms |-> NoCall]
    /\ rest = [r \in Rooms |-> NoRequest]

NextRemove ==
    \/ \E n \in Nodes, transfer_players \in BOOLEAN : remove_node(n, transfer_players)
    \/ \E r \in Rooms :
         \/ transfer_player(r)
         \/ destroy_player(r)
         \/ transfer_to_done(r)
         \/ \E err \in TransferErrors : transfer_to_fail(r, err)
         \/ disconnect_done(r)
         \/ disconnect_fail(r)
         \/ node_destroy_done(r)
         \/ node_destroy_fail(r)
    \/ gather_done
    \/ close

SpecRemove == InitRemove /\ [][NextRemove]_vars

(***************************************************************************)
(* Claims about the removal                                                *)
(***************************************************************************)
\* C18: from the moment remove_node has started its per-player tasks the
\* Node is no key of the registry: no get_node call returns it, whatever
\* its arguments, and no task of the removal has it as its target.
C18_RemovedNodeNotSelectable ==
    removal.pc # "idle" =>
        /\ ~Registered(removal.node)
        /\ \A r \in Rooms : \A e \in Endpoints \cup {NoEndpoint} :
              removal.node \notin get_node(GuildId(r), e, <<>>)
        /\ \A r \in Rooms : removal.task[r].target # removal.node

\* Node a is being removed and a task awaits the transfer of its player to
\* Node b, the Node its get_node call returned
C18_Witness ==
    /\ removal.pc = "gathering"
    /\ removal.node = "a"
    /\ \E r \in Rooms :
         removal.task[r].pc = "transfer" /\ removal.task[r].target = "b"

\* C19: with transfer_players, a player whose replacement lookup or
\* transfer failed is destroyed instead: its task goes on to Player.destroy
\* and does not end with the error of the transfer.
C19_FailedTransferDestroys ==
    \A r \in Rooms :
        removal.task[r].failed => removal.task[r].raised_in # "transfer"

\* C20: remove_node awaits every per-player task before it closes the Node:
\* once the call is past gather(), closing the Node or ended, no task of
\* the removal is still running.
C20_TasksAwaitedBeforeClose ==
    removal.pc \in {"closing", "done", "raised"} =>
        \A r \in Rooms : removal.task[r].pc \in {"none", "done", "raised"}

(***************************************************************************)
(* Claims about Node.connect                                               *)
(***************************************************************************)
\* invocation k of Node n starts in this step
Enters(n, k) == ctask[n][k].pc = "unused" /\ ctask'[n][k].pc # "unused"

\* C21: a connect() invocation that starts while the Node holds a socket
\* raises NodeAlreadyConnected in that step, which leaves the socket, the
\* sockets of the transport, the available flag, the ready Event, the
\* session id and the player map as they were; an invocation that raised
\* it has opened no socket and never runs again.
C21_AlreadyConnectedRaises ==
    [][\A n \in Nodes : \A k \in TaskIds :
         /\ (Enters(n, k) /\ ws[n] # None)
              => /\ ctask'[n][k].pc = "raised"
                 /\ ctask'[n][k].err = "NodeAlreadyConnected"
                 /\ ws'[n] = ws[n]
                 /\ sock'[n] = sock[n]
                 /\ available'[n] = available[n]
                 /\ ready'[n] = ready[n]
                 /\ session_id'[n] = session_id[n]
                 /\ players'[n] = players[n]
         /\ ctask[n][k].err = "NodeAlreadyConnected"
              => /\ ctask'[n][k] = ctask[n][k]
                 /\ sock[n][k].st = "none"]_vars

\* C21 witness: a call was rejected while the Node holds an open socket.
C21_Witness ==
    \E k \in TaskIds : /\ ctask["a"][k].err = "NodeAlreadyConnected"
                       /\ ctask["a"][k].origin = "caller"
                       /\ ws["a"] # None
                       /\ sock["a"][ws["a"]].st = "open"

\* C22: the step in which a caller's connect() raises TimeoutError leaves
\* the Node not available and without a socket in Node._ws, so that the
\* entry check of the caller's next connect() passes.
C22_TimeoutLeavesRetryable ==
    [][\A n \in Nodes : \A k \in TaskIds :
         (/\ ctask[n][k].origin = "caller"
          /\ ctask[n][k].pc = "waitready"
          /\ ctask'[n][k].err = "TimeoutError")
           => (~available'[n] /\ ws'[n] = None)]_vars

\* invocation k of Node n has opened a socket
Opened(n, k) == sock[n][k].st # "none"

\* C29: an invocation that opened a socket leaves its wait for the ready
\* Event only after the `ready` frame of that socket has been handled to
\* its end, and it reconciles with the session id that frame delivered.
C29_ReadyOfThisConnection ==
    [][\A n \in Nodes : \A k \in TaskIds :
         (/\ Opened(n, k)
          /\ ctask[n][k].pc = "waitready"
          /\ ctask'[n][k].pc = "syncreq")
           => /\ sock[n][k].rdy = "taken"
              /\ hmsg[n][k] = "done"
              /\ ctask'[n][k].sid = sock[n][k].sid]_vars

\* the retries invocation k of Node n has scheduled
Retries(n, k) ==
    {j \in TaskIds : ctask[n][j].origin = "retry" /\ ctask[n][j].by = k}

\* C30: an invocation that has scheduled a retry (its open failed) has
\* started no listener task, does not wait for the ready Event and has not
\* gone on to the reconciliation or to the end of connect().
C30_FailedOpenOnlyRetries ==
    \A n \in Nodes : \A k \in TaskIds :
        Retries(n, k) # {}
          => /\ lst[n][k].pc = "none"
             /\ ctask[n][k].pc \notin {"waitready", "syncreq", "removing",
                                       "synced", "done"}

(***************************************************************************)
(* Overlapping connect() invocations of one Node                           *)
(***************************************************************************)
\* The caller's first connect() on Node a has ended: its open failed, it
\* scheduled a retry after the backoff delay and then raised TimeoutError
\* out of its wait for `ready` (its listener task had ended with
\* RuntimeError).  The retry it scheduled is invocation 1, about to open
\* its socket; the ended invocation and its listener are not kept.
InitOverlap ==
    /\ ws = [n \in Nodes |-> None]
    /\ available = [n \in Nodes |-> FALSE]
    /\ ready = [n \in Nodes |-> FALSE]
    /\ session_id = [n \in Nodes |-> None]
    /\ version_checked = [n \in Nodes |-> n = "a"]
    /\ stats = [n \in Nodes |-> NoStats]
    /\ players = [n \in Nodes |-> NoPlayers]
    /\ pool = <<>>
    /\ config = [n \in Nodes |-> NoConfig]
    /\ node_label = [n \in Nodes |-> n]
    /\ shard_count = None
    /\ selection = NoSelection
    /\ removal = NoRemoval
    /\ http = NoHttp
    /\ merged = NoMerge
    /\ inbox = [n \in Nodes |-> <<>>]
    /\ handled = NoHandled
    /\ ctask = [n \in Nodes |-> [k \in TaskIds |->
                  IF n = "a" /\ k = 1
                  THEN [NoTask EXCEPT !.pc = "opening", !.origin = "retry",
                                      !.backoff = 1]
                  ELSE NoTask]]
    /\ lst = [n \in Nodes |-> [k \in TaskIds |-> NoListener]]
    /\ hmsg = [n \in Nodes |-> [k \in TaskIds |-> "none"]]
    /\ sock = [n \in Nodes |-> [k \in TaskIds |-> NoSocket]]
    /\ srv = [n \in Nodes |-> [sess |-> None, remote |-> [r \in Rooms |-> NoRemote]]]
    /\ own = [r \in Rooms |-> NewPlayer("none")]
    /\ adopted = [n \in Nodes |-> [r \in Rooms |-> NewPlayer("none")]]
    /\ guild_voice = [r \in Rooms |-> "none"]
    /\ call = [r \in Rooms |-> NoCall]
    /\ rest = [r \in Rooms |-> NoRequest]

\* the caller retries, and every invocation and listener takes its steps
NextOverlap ==
    \/ add_node("a")
    \/ \E k \in TaskIds :
         \/ ws_connect_ok("a", k)
         \/ ws_connect_fail("a", k)
         \/ backoff_done("a", k)
         \/ ready_wait_done("a", k)
         \/ ready_timeout("a", k)
         \/ sync_response("a", k)
    \/ ws_listener("a")

SpecOverlap == InitOverlap /\ [][NextOverlap]_vars

\* the sockets of Node n that are open on the transport
Live(n) == {s \in TaskIds : sock[n][s].st = "open"}

\* C23: a Node has at most one open socket.
C23_OneLiveSocket ==
    \A n \in Nodes : Cardinality(Live(n)) <= 1

(***************************************************************************)
(* Registration of a second Node                                           *)
(***************************************************************************)
\* Node a was added to the pool under the label "a" and is connected (task
\* 1, socket 1, session 1 of its server); Node b was constructed with the
\* same label or with another one and is not added yet.
InitRegister ==
    /\ ws = [n \in Nodes |-> IF n = "a" THEN 1 ELSE None]
    /\ available = [n \in Nodes |-> n = "a"]
    /\ ready = [n \in Nodes |-> n = "a"]
    /\ session_id = [n \in Nodes |-> IF n = "a" THEN 1 ELSE None]
    /\ version_checked = [n \in Nodes |-> n = "a"]
    /\ stats = [n \in Nodes |-> NoStats]
    /\ players = [n \in Nodes |-> NoPlayers]
    /\ pool = <<"a">>
    /\ config = [n \in Nodes |-> NoConfig]
    /\ \E l \in {"a", "b"} :
         node_label = [n \in Nodes |-> IF n = "a" THEN "a" ELSE l]
    /\ shard_count = None
    /\ selection = NoSelection
    /\ removal = NoRemoval
    /\ http = NoHttp
    /\ merged = NoMerge
    /\ inbox = [n \in Nodes |-> <<>>]
    /\ handled = NoHandled
    /\ ctask = [n \in Nodes |-> [k \in TaskIds |->
                  IF n = "a" /\ k = 1
                  THEN [NoTask EXCEPT !.pc = "done", !.origin = "caller", !.sid = 1]
                  ELSE NoTask]]
    /\ lst = [n \in Nodes |-> [k \in TaskIds |->
                IF n = "a" /\ k = 1 THEN [NoListener EXCEPT !.pc = "recv", !.sock = 1]
                ELSE NoListener]]
    /\ hmsg = [n \in Nodes |-> [k \in TaskIds |->
                 IF n = "a" /\ k = 1 THEN "done" ELSE "none"]]
    /\ sock = [n \in Nodes |-> [k \in TaskIds |->
                 IF n = "a" /\ k = 1
                 THEN [st |-> "open", rdy |-> "taken", resumed |-> FALSE, sid |-> 1]
                 ELSE NoSocket]]
    /\ srv = [n \in Nodes |-> [sess |-> IF n = "a" THEN 1 ELSE None,
                               remote |-> [r \in Rooms |-> NoRemote]]]
    /\ own = [r \in Rooms |-> NewPlayer("none")]
    /\ adopted = [n \in Nodes |-> [r \in Rooms |-> NewPlayer("none")]]
    /\ guild_voice = [r \in Rooms |-> "none"]
    /\ call = [r \in Rooms |-> NoCall]
    /\ rest = [r \in Rooms |-> NoRequest]

\* NodePool.add_node(b) and the connection of Node b
NextRegister ==
    \/ add_node("b")
    \/ connect("b")
    \/ \E k \in TaskIds : sync_response("b", k)
    \/ ws_listener("b")

SpecRegister == InitRegister /\ [][NextRegister]_vars

\* C24: while a Node is registered, no step registers another Node of the
\* same label, and the Node registered stays registered.
C24_DuplicateLabelRejected ==
    [][\A n \in Nodes : \A o \in Nodes \ {n} :
         (node_label[n] = node_label[o] /\ Registered(o))
           => (Registered(o)' /\ ~Registered(n)')]_vars

(***************************************************************************)
(* Node.__request                                                          *)
(***************************************************************************)
\* the response bodies of the model, as the sequences of their characters:
\* two JSON documents and an error page
Texts == {<<"[", "]">>, <<"{", "}">>, <<"o", "o", "p", "s">>}
\* the statuses the server of the model answers with
Statuses == {100, 200, 201, 204, 299, 300, 302, 400, 401, 403, 404, 500}
\* the methods of the REST surface
Methods == {"GET", "POST", "PATCH", "DELETE"}

\* `return value`
Return(value) ==
    [kind |-> "return", error |-> "none", status |-> 0, message |-> <<>>,
     value |-> value]
\* `raise error`; the HTTP errors carry a status and a message
Raise_(error, status, message) ==
    [kind |-> "raise", error |-> error, status |-> status, message |-> message,
     value |-> NoJson]

\* loads: the document of a JSON text; a text that is no JSON raises
loads(text) ==
    CASE text = <<"[", "]">> -> Return([type |-> "list"])
      [] text = <<"{", "}">> -> Return([type |-> "dict"])
      [] OTHER -> Raise_("JSONDecodeError", 0, <<>>)

\* errors.py: HTTPBadRequest, HTTPUnauthorized and HTTPNotFound pass their
\* own status to HTTPException.__init__
HTTPException(status, message) == Raise_("HTTPException", status, message)
HTTPBadRequest(message) == Raise_("HTTPBadRequest", 400, message)
HTTPUnauthorized(message) == Raise_("HTTPUnauthorized", 401, message)
HTTPNotFound(message) == Raise_("HTTPNotFound", 404, message)

\* request_result with 404 answered by the generic error
request_result_without_404(status, text) ==
    IF status = 204 THEN Return([type |-> "None"])
    ELSE IF ~(200 <= status /\ status < 300)
    THEN IF status = 400 THEN HTTPBadRequest(text)
         ELSE IF status = 401 THEN HTTPUnauthorized(text)
         ELSE HTTPException(status, text)
    ELSE loads(text)

\* Node.__request, lines 925-945: what the call gives for a response
request_result(status, text) ==
    IF status = 204 THEN Return([type |-> "None"])
    ELSE IF ~(200 <= status /\ status < 300)
    THEN IF status = 400 THEN HTTPBadRequest(text)
         ELSE IF status = 401 THEN HTTPUnauthorized(text)
         ELSE IF status = 404 THEN HTTPNotFound(text)
         ELSE HTTPException(status, text)
    ELSE loads(text)

\* Node.__request, lines 903-922: the request is sent
request(method) ==
    /\ http.pc # "sent"
    /\ http' = [NoHttp EXCEPT !.pc = "sent", !.method = method]
    /\ UNCHANGED <<nodeVars, players, pool, config, node_label, shard_count,
                   selection, removal, merged,
                   inbox, handled, taskVars, playerVars>>

\* Node.__request, lines 923-945: the response arrives
response(status, text) ==
    /\ http.pc = "sent"
    /\ http' = [http EXCEPT !.pc = "ended", !.status = status, !.text = text,
                            !.out = request_result(status, text)]
    /\ UNCHANGED <<nodeVars, players, pool, config, node_label, shard_count,
                   selection, removal, merged,
                   inbox, handled, taskVars, playerVars>>

NextRequest ==
    \/ \E method \in Methods : request(method)
    \/ \E status \in Statuses, text \in Texts : response(status, text)

\* a connected Node (the state of InitPool) whose REST surface is called
SpecRequest == InitPool /\ [][NextRequest]_vars

\* C25: a call that ended on status 204 returned None; on another 2xx
\* status it returned the document of the body (when the body is one); on
\* 400, 401 and 404 it raised HTTPBadRequest, HTTPUnauthorized and
\* HTTPNotFound; on any other status it raised HTTPException itself; every
\* error raised carries the status and the body text of the response.
C25_StatusMapping ==
    http.pc = "ended" =>
      LET st == http.status
          out == http.out
          specific == (400 :> "HTTPBadRequest") @@ (401 :> "HTTPUnauthorized")
                        @@ (404 :> "HTTPNotFound")
      IN /\ st = 204 => out = Return([type |-> "None"])
         /\ (st \in 200..299 /\ st # 204 /\ http.text = <<"[", "]">>)
              => out = Return([type |-> "list"])
         /\ (st \in 200..299 /\ st # 204 /\ http.text = <<"{", "}">>)
              => out = Return([type |-> "dict"])
         /\ st \notin 200..299
              => /\ out.kind = "raise"
                 /\ out.error = IF st \in DOMAIN specific THEN specific[st]
                                ELSE "HTTPException"
                 /\ out.status = st
                 /\ out.message = http.text

\* C25 witness: a request answered 404 with an error page raised
\* HTTPNotFound with that page as its message.
C25_Witness ==
    /\ http.pc = "ended"
    /\ http.status = 404
    /\ http.out.error = "HTTPNotFound"
    /\ http.out.message = <<"o", "o", "p", "s">>

(***************************************************************************)
(* Filter: the merge operators, and Player._update_filters                 *)
(***************************************************************************)
\* The filters of the model: `timescale` stands for the nine parameter
\* groups (None or one of two Timescale objects), `volume` is None, 0.0,
\* 1.0 or 2.0.
FilterGroups == {None, 1, 2}
FilterVolumes == {NoneVolume, 0, 1, 2}
Filters == [timescale : FilterGroups, volume : FilterVolumes]

\* Python's `x or y` on a parameter group: an instance of a dataclass
\* without __bool__ or __len__ is true, None is false
or_group(x, y) == IF x # None THEN x ELSE y
\* Python's `x or y` on a volume: None and 0.0 are false
or_volume(x, y) == IF x # NoneVolume /\ x # 0 THEN x ELSE y

\* or_ with None for an attribute neither operand has a true value of
or_none_when_unset(self, other) ==
    [timescale |-> or_group(other.timescale, self.timescale),
     volume |-> IF or_volume(other.volume, self.volume) = 0 THEN NoneVolume
                ELSE or_volume(other.volume, self.volume)]

\* Filter.__or__
or_(self, other) ==
    [timescale |-> or_group(other.timescale, self.timescale),
     volume |-> or_volume(other.volume, self.volume)]

\* Filter.__and__
and_(self, other) ==
    [timescale |-> or_group(self.timescale, other.timescale),
     volume |-> or_volume(self.volume, other.volume)]

\* Filter.__eq__
eq(self, other) ==
    /\ self.timescale = other.timescale
    /\ self.volume = other.volume

\* what a name refers to when it is bound to None and not to a Filter
BoundNone == [is_none |-> TRUE, filter |-> EmptyFilter]

\* Filter.__ior__: the object is changed in place and the method returns
\* None
ior(self, other) ==
    [object |-> [timescale |-> or_group(other.timescale, self.timescale),
                 volume |-> or_volume(other.volume, self.volume)],
     returned |-> BoundNone]

\* Filter.__iand__: the object is changed in place and the method returns
\* None
iand(self, other) ==
    [object |-> [timescale |-> or_group(self.timescale, other.timescale),
                 volume |-> or_volume(self.volume, other.volume)],
     returned |-> BoundNone]

\* Filter.payload: an attribute is put in the payload when it is true
payload(f) ==
    [keys |-> (IF f.timescale # None THEN {"timescale"} ELSE {})
                \cup (IF f.volume # NoneVolume /\ f.volume # 0 THEN {"volume"}
                      ELSE {}),
     timescale |-> f.timescale,
     volume |-> IF f.volume # NoneVolume /\ f.volume # 0 THEN f.volume ELSE 0]

\* functools.reduce(or_, values) over the values from index i on, with the
\* accumulator acc
RECURSIVE reduce_or(_, _, _)
reduce_or(filters, i, acc) ==
    IF i > Len(filters) THEN acc
    ELSE reduce_or(filters, i + 1, or_(acc, filters[i].filter))

\* Player._update_filters, line 660: the filter passed to Player.update
update_filters(filters) ==
    IF filters # <<>> THEN reduce_or(filters, 2, filters[1].filter)
    ELSE EmptyFilter

\* the labels of the model, in the order they are added
FilterLabels == <<"x", "y", "z">>
\* the label map after add_filter was called with the first n labels and
\* the operands a, b and c
FilterMap(n) ==
    [i \in 1..n |-> [label |-> FilterLabels[i],
                     filter |-> <<merged.a, merged.b, merged.c>>[i]]]

\* Filter(...): the three operands are constructed
construct(a, b, c) ==
    /\ merged.op = "none"
    /\ merged' = [op |-> "Filter", a |-> a, b |-> b, c |-> c]
    /\ UNCHANGED <<nodeVars, players, pool, config, node_label, shard_count,
                   selection, removal, http,
                   inbox, handled, taskVars, playerVars>>

\* a | a, a | b, (a | b) | c and a | (b | c)
or_call ==
    /\ merged.op # "none"
    /\ LET a == merged.a
           b == merged.b
           c == merged.c
       IN merged' = [op |-> "or", a |-> a, b |-> b, c |-> c,
                     aa |-> or_(a, a), ab |-> or_(a, b),
                     left |-> or_(or_(a, b), c), right |-> or_(a, or_(b, c))]
    /\ UNCHANGED <<nodeVars, players, pool, config, node_label, shard_count,
                   selection, removal, http,
                   inbox, handled, taskVars, playerVars>>

\* `x |= y` on copies of a and b: the name x is bound to what
\* x.__ior__(y) returns
ior_call ==
    /\ merged.op # "none"
    /\ merged' = [op |-> "ior", a |-> merged.a, b |-> merged.b, c |-> merged.c,
                  object |-> ior(merged.a, merged.b).object,
                  after |-> ior(merged.a, merged.b).returned]
    /\ UNCHANGED <<nodeVars, players, pool, config, node_label, shard_count,
                   selection, removal, http,
                   inbox, handled, taskVars, playerVars>>

\* `x &= y` on copies of a and b: the name x is bound to what
\* x.__iand__(y) returns
iand_call ==
    /\ merged.op # "none"
    /\ merged' = [op |-> "iand", a |-> merged.a, b |-> merged.b, c |-> merged.c,
                  object |-> iand(merged.a, merged.b).object,
                  after |-> iand(merged.a, merged.b).returned]
    /\ UNCHANGED <<nodeVars, players, pool, config, node_label, shard_count,
                   selection, removal, http,
                   inbox, handled, taskVars, playerVars>>

\* Player._update_filters on a label map of n labels: the aggregate and the
\* payload Node.update sends for it (node.py lines 851-852)
update_filters_call(n) ==
    /\ merged.op # "none"
    /\ merged' = [op |-> "update_filters", a |-> merged.a, b |-> merged.b,
                  c |-> merged.c, filters |-> FilterMap(n),
                  out |-> update_filters(FilterMap(n)),
                  sent |-> payload(update_filters(FilterMap(n)))]
    /\ UNCHANGED <<nodeVars, players, pool, config, node_label, shard_count,
                   selection, removal, http,
                   inbox, handled, taskVars, playerVars>>

NextFilter ==
    \/ \E a \in Filters, b \in Filters, c \in Filters : construct(a, b, c)
    \/ or_call
    \/ ior_call
    \/ iand_call
    \/ \E n \in 0..Len(FilterLabels) : update_filters_call(n)

\* the operators are applied on the host of a connected Node (InitPool)
SpecFilter == InitPool /\ [][NextFilter]_vars

(***************************************************************************)
(* Claims about the filters                                                *)
(***************************************************************************)
\* C26: a | a equals a, and (a | b) | c equals a | (b | c), for all filters
\* a, b and c.
C26_MergeIdempotentAssociative ==
    merged.op = "or" => /\ eq(merged.aa, merged.a)
                        /\ eq(merged.left, merged.right)

\* C26 witness: three filters that all set the volume, one of them to 0.0,
\* and of which two set the parameter group, were merged both ways.
C26_Witness ==
    /\ merged.op = "or"
    /\ merged.a = [timescale |-> 1, volume |-> 1]
    /\ merged.b = [timescale |-> 2, volume |-> 2]
    /\ merged.c = [timescale |-> None, volume |-> 0]
    /\ merged.left = [timescale |-> 2, volume |-> 2]
    /\ merged.right = merged.left

\* the indices of the entries of a label map whose filter has the field set
SetAt(filters, field, unset) ==
    {i \in 1..Len(filters) : filters[i].filter[field] # unset}
\* the value of the last entry that sets the field, or the unset value
LastSet(filters, field, unset) ==
    LET S == SetAt(filters, field, unset)
    IN IF S = {} THEN unset
       ELSE filters[CHOOSE i \in S : \A j \in S : j <= i].filter[field]

\* C27: the aggregate passed on a filter change carries, for the parameter
\* group and for the volume, the value of the last label whose filter has
\* it set (is not None), and None only if no label sets it.
C27_AggregateRightmostSet ==
    merged.op = "update_filters"
      => /\ merged.out.timescale = LastSet(merged.filters, "timescale", None)
         /\ merged.out.volume = LastSet(merged.filters, "volume", NoneVolume)

\* the merge of two filters that takes each attribute of `first` that is
\* set and the attribute of `second` otherwise
Favouring(first, second) ==
    [timescale |-> IF first.timescale # None THEN first.timescale
                   ELSE second.timescale,
     volume |-> IF first.volume # NoneVolume THEN first.volume
                ELSE second.volume]

\* C28: after `x |= y` (x a copy of a, y of b) the name x refers to the
\* merge of x and y favouring x, and after `x &= y` to the merge favouring y.
C28_InPlaceAsDocumented ==
    /\ merged.op = "ior"
         => (~merged.after.is_none
             /\ eq(merged.after.filter, Favouring(merged.a, merged.b)))
    /\ merged.op = "iand"
         => (~merged.after.is_none
             /\ eq(merged.after.filter, Favouring(merged.b, merged.a)))

(***************************************************************************)
(* Claims about the reconnect backoff                                      *)
(***************************************************************************)
\* the Node has been Available: an invocation has run set_available
EverAvailable(n) == \E k \in TaskIds : ctask[n][k].pc = "done"
\* the listeners of the Node that have taken the first delay of a new
\* ExponentialBackoff (line 601 makes one for every listener task)
FreshStarts(n) == {k \in TaskIds : lst[n][k].backoff >= 1}

\* C31: the invocations a failure schedules hold the backoff of the step
\* that scheduled them, and while the Node has not reached Available, at
\* most one of its listeners has started a backoff afresh.
C31_BackoffFreshOnlyAfterAvailable ==
    \A n \in Nodes :
        /\ \A k \in TaskIds :
              ctask[n][k].origin \in {"retry", "listener"}
                => ctask[n][k].backoff >= 1
        /\ ~EverAvailable(n) => Cardinality(FreshStarts(n)) <= 1

(***************************************************************************)
(* Claims about the voice events of a session                              *)
(***************************************************************************)
\* The sessions of a pool of two connected Nodes get their voice events
\* while the Nodes get their first stats frame, which decides the Node
\* get_node returns.
NextVoice ==
    \/ \E n \in Nodes, st \in {f \in StatsFrames : f.system_load = 0} :
         recv_stats(n, 1, st)
    \/ \E r \in PoolRooms :
         \/ \E channel \in BOOLEAN : on_voice_state_update(r, 3, channel)
         \/ \E e \in Endpoints : on_voice_server_update(r, e, 4)

SpecVoice == InitPool /\ [][NextVoice]_vars

\* the session of room r has to look for a Node on a voice-server event
\* with this endpoint
Rebinds(r, e) ==
    \/ own[r].node = "none"
    \/ ~own[r].server_state.present
    \/ own[r].server_state.endpoint # e

\* C32: a voice-server event makes the session take a Node of get_node when
\* it is unbound, has no stored credentials or the endpoint differs from
\* the stored one, and keep its Node otherwise; after it the session is
\* registered under its room on the Node it is bound to and holds the new
\* credentials.
C32_VoiceServerRebinds ==
    [][\A r \in PoolRooms : \A e \in Endpoints :
         on_voice_server_update(r, e, 4)
           => /\ IF Rebinds(r, e)
                 THEN own'[r].node \in get_node(GuildId(r), e, <<>>)
                 ELSE own'[r].node = own[r].node
              /\ own'[r].node \in Nodes
              /\ players'[own'[r].node][r] = "own"
              /\ own'[r].server_state =
                   [present |-> TRUE, token |-> 4, endpoint |-> e]]_vars

\* C32 witness: a session registered on Node a was moved to Node b, which
\* has the lower weight, by an event with another endpoint.
C32_Witness ==
    \E r \in PoolRooms :
        /\ players["a"][r] = "own"
        /\ players["b"][r] = "own"
        /\ own[r].node = "b"
        /\ weight("b") < weight("a")
        /\ own[r].server_state.present

(***************************************************************************)
(* The frames of playing sessions                                          *)
(***************************************************************************)
\* frames a socket holds at most
MaxFrames == 2
\* the rooms of the sessions of the host, of the adopted session, and of a
\* server player the reconciliation skipped (its guild has no voice state)
HostRoom == 1
AdoptedRoom == 2
SkippedRoom == 3

\* Player.update_state, for a state without the optional position and
\* ping keys (state.get takes 0 and -1 for them)
update_state(p, state) ==
    [p EXCEPT !.position = 0, !.connected = state.connected, !.ping = -1]

\* Player.dispatch_event taking an event of unknown type for the end of
\* the track
dispatch_event_unknown_ends(p, data) ==
    CASE data.type = "TrackStartEvent" ->
           IF p.current = NoTrack THEN [player |-> p, event |-> NoEvent]
           ELSE [player |-> [p EXCEPT !.last_track = p.current],
                 event |-> [name |-> "track_start", track |-> p.current]]
      [] data.type = "TrackEndEvent" ->
           IF p.last_track = NoTrack THEN [player |-> p, event |-> NoEvent]
           ELSE [player |-> IF data.reason # "REPLACED"
                            THEN [p EXCEPT !.current = NoTrack] ELSE p,
                 event |-> [name |-> "track_end", track |-> p.last_track]]
      [] OTHER -> [player |-> [p EXCEPT !.current = NoTrack], event |-> NoEvent]

\* Player.dispatch_event: the Player after the event, and the event
\* dispatched to the client
dispatch_event(p, data) ==
    CASE data.type = "TrackStartEvent" ->
           IF p.current = NoTrack THEN [player |-> p, event |-> NoEvent]
           ELSE [player |-> [p EXCEPT !.last_track = p.current],
                 event |-> [name |-> "track_start", track |-> p.current]]
      [] data.type = "TrackEndEvent" ->
           IF p.last_track = NoTrack THEN [player |-> p, event |-> NoEvent]
           ELSE [player |-> IF data.reason # "REPLACED"
                            THEN [p EXCEPT !.current = NoTrack] ELSE p,
                 event |-> [name |-> "track_end", track |-> p.last_track]]
      [] OTHER -> [player |-> p, event |-> NoEvent]

\* Node.get_player of the room of a frame
get_player(n, data) ==
    IF data.guildId \in Rooms THEN players[n][data.guildId] ELSE "none"

\* the frame is one _handle_msg and _handle_event discard
Discarded(n, data) ==
    \/ data.op \notin {"playerUpdate", "event"}
    \/ get_player(n, data) = "none"
    \/ data.op = "event" /\ data.type \notin {"TrackStartEvent", "TrackEndEvent"}

\* _ws_listener receives the next frame and the _handle_msg task it creates
\* runs to its end (playerUpdate and event frames do not suspend)
handle_msg(n) ==
    /\ inbox[n] # <<>>
    /\ \E k \in TaskIds : lst[n][k].pc = "recv"
    /\ LET data == Head(inbox[n])
           ref == get_player(n, data)
           r == data.guildId
           p == Deref(n, r, ref)
           after == IF data.op = "playerUpdate"
                    THEN [player |-> update_state(p, data), event |-> NoEvent]
                    ELSE dispatch_event(p, data)
       IN /\ inbox' = [inbox EXCEPT ![n] = Tail(@)]
          /\ IF data.op \in {"playerUpdate", "event"} /\ ref # "none"
             THEN /\ own' = IF ref = "own" THEN [own EXCEPT ![r] = after.player]
                            ELSE own
                  /\ adopted' = IF ref = "adopted"
                                THEN [adopted EXCEPT ![n][r] = after.player]
                                ELSE adopted
                  /\ handled' = [frame |-> data,
                                 outcome |-> IF Discarded(n, data) THEN "discarded"
                                             ELSE "handled",
                                 event |-> after.event]
             ELSE /\ handled' = [frame |-> data, outcome |-> "discarded",
                                 event |-> NoEvent]
                  /\ UNCHANGED <<own, adopted>>
    /\ UNCHANGED <<nodeVars, players, pool, config, node_label, shard_count,
                   selection, removal, http, merged, taskVars, guild_voice,
                   call, rest>>

\* the track of the play request in flight for room r
Requested(r) == IF call[r].op = "play" THEN PlayedTrack ELSE NextTrack

\* the server of the Node takes the play request in flight: it replaces the
\* track it plays, if any, and starts the requested one
serve_play(r) ==
    /\ call[r].pc = "awaiting"
    /\ call[r].op \in {"play", "play_next"}
    /\ rest[r].update \in Nodes
    /\ LET n == rest[r].update
           old == srv[n].remote[r].track
           ended == IF old = None THEN <<>>
                    ELSE <<Frame("event", "TrackEndEvent", r, old, "REPLACED", FALSE)>>
           started == <<Frame("event", "TrackStartEvent", r, Requested(r).id,
                              "none", FALSE)>>
       IN /\ old # Requested(r).id
          /\ Len(inbox[n]) + Len(ended) + 1 <= MaxFrames
          /\ inbox' = [inbox EXCEPT ![n] = @ \o ended \o started]
          /\ srv' = [srv EXCEPT ![n].remote[r].present = TRUE,
                                ![n].remote[r].track = Requested(r).id]
    /\ UNCHANGED <<nodeVars, players, pool, config, node_label, shard_count,
                   selection, removal, http, merged, handled, ctask, lst, hmsg,
                   sock, playerVars>>

\* the track the server plays for room r comes to its end
track_finished(n, r) ==
    /\ srv[n].remote[r].track # None
    /\ Len(inbox[n]) < MaxFrames
    /\ inbox' = [inbox EXCEPT ![n] =
                   Append(@, Frame("event", "TrackEndEvent", r,
                                   srv[n].remote[r].track, "FINISHED", FALSE))]
    /\ srv' = [srv EXCEPT ![n].remote[r].track = None]
    /\ UNCHANGED <<nodeVars, players, pool, config, node_label, shard_count,
                   selection, removal, http, merged, handled, ctask, lst, hmsg,
                   sock, playerVars>>

\* the frames the server sends of itself for a room it has a player for:
\* the periodic playerUpdate, and frames of a later protocol version
ServerFrames(r) ==
    {Frame("playerUpdate", "none", r, None, "none", TRUE),
     Frame("event", "TrackSeekedEvent", r, None, "none", FALSE),
     Frame("playerSeek", "none", r, None, "none", FALSE)}

\* (sent on an idle socket, which keeps the frames in flight few)
server_send(n, data) ==
    /\ srv[n].remote[data.guildId].present
    /\ inbox[n] = <<>>
    /\ inbox' = [inbox EXCEPT ![n] = Append(@, data)]
    /\ UNCHANGED <<nodeVars, players, pool, config, node_label, shard_count,
                   selection, removal, http, merged, handled, taskVars,
                   playerVars>>

\* Node a of a pool of two connected Nodes has resumed a session: the host
\* has connected the session of HostRoom on it, the reconciliation adopted
\* the playing session of AdoptedRoom and skipped that of SkippedRoom.
InitEvent ==
    /\ ws = [n \in Nodes |-> 1]
    /\ available = [n \in Nodes |-> TRUE]
    /\ ready = [n \in Nodes |-> TRUE]
    /\ session_id = [n \in Nodes |-> 1]
    /\ version_checked = [n \in Nodes |-> TRUE]
    /\ stats = [n \in Nodes |-> NoStats]
    /\ players = [n \in Nodes |-> [r \in Rooms |->
                    IF n = "a" /\ r = HostRoom THEN "own"
                    ELSE IF n = "a" /\ r = AdoptedRoom THEN "adopted"
                    ELSE "none"]]
    /\ pool = <<"a", "b">>
    /\ config = [n \in Nodes |-> NoConfig]
    /\ node_label = [n \in Nodes |-> n]
    /\ shard_count = None
    /\ selection = NoSelection
    /\ removal = NoRemoval
    /\ http = NoHttp
    /\ merged = NoMerge
    /\ inbox = [n \in Nodes |-> <<>>]
    /\ handled = NoHandled
    /\ ctask = [n \in Nodes |-> [k \in TaskIds |->
                  IF k = 1
                  THEN [NoTask EXCEPT !.pc = "done", !.origin = "caller", !.sid = 1]
                  ELSE NoTask]]
    /\ lst = [n \in Nodes |-> [k \in TaskIds |->
                IF k = 1 THEN [NoListener EXCEPT !.pc = "recv", !.sock = 1]
                ELSE NoListener]]
    /\ hmsg = [n \in Nodes |-> [k \in TaskIds |-> IF k = 1 THEN "done" ELSE "none"]]
    /\ sock = [n \in Nodes |-> [k \in TaskIds |->
                 IF k = 1
                 THEN [st |-> "open", rdy |-> "taken", resumed |-> n = "a", sid |-> 1]
                 ELSE NoSocket]]
    /\ srv = [n \in Nodes |->
                [sess |-> 1,
                 remote |-> [r \in Rooms |->
                               IF n = "a" /\ r = HostRoom THEN RemoteIdle
                               ELSE IF n = "a" /\ r \in {AdoptedRoom, SkippedRoom}
                               THEN RemotePlaying
                               ELSE NoRemote]]]
    /\ own = [r \in Rooms |-> IF r = HostRoom
                              THEN [LocalPlayer EXCEPT !.current = NoTrack]
                              ELSE NewPlayer("none")]
    /\ adopted = [n \in Nodes |-> [r \in Rooms |->
                    IF n = "a" /\ r = AdoptedRoom THEN AdoptedPlayer
                    ELSE NewPlayer("none")]]
    /\ guild_voice = [r \in Rooms |-> IF r = SkippedRoom THEN "none" ELSE "channel"]
    /\ call = [r \in Rooms |-> NoCall]
    /\ rest = [r \in Rooms |-> [NoRequest EXCEPT !.voice =
                                  IF r = HostRoom THEN "a" ELSE "none"]]

NextEvent ==
    \/ play(HostRoom)
    \/ play_next(HostRoom)
    \/ update_response(HostRoom)
    \/ serve_play(HostRoom)
    \/ \E r \in Rooms : track_finished("a", r)
    \/ \E r \in {HostRoom, SkippedRoom} :
         \E data \in ServerFrames(r) : server_send("a", data)
    \/ handle_msg("a")

SpecEvent == InitEvent /\ [][NextEvent]_vars

(***************************************************************************)
(* Claims about the frames                                                 *)
(***************************************************************************)
\* C33: handling a frame with an unknown op, an event of unknown type, or a
\* playerUpdate or event for a room without a session changes no field of a
\* Node or of a session, raises nothing and leaves the listener receiving.
C33_UnknownFramesDropped ==
    [][(handle_msg("a") /\ Discarded("a", Head(inbox["a"])))
         => /\ UNCHANGED <<nodeVars, players, pool, taskVars, playerVars>>
            /\ handled'.outcome = "discarded"
            /\ handled'.event = NoEvent
            /\ \E k \in TaskIds : lst'["a"][k].pc = "recv"]_vars

\* C33 witness: an event of unknown type for the room of a session that
\* has a current track was discarded.
C33_Witness ==
    /\ handled.outcome = "discarded"
    /\ handled.frame.type = "TrackSeekedEvent"
    /\ handled.frame.guildId = HostRoom
    /\ own[HostRoom].current = PlayedTrack

\* the `current` track of the session of the frame before and after the
\* frame is handled
CurrentBefore(data) ==
    Deref("a", data.guildId, get_player("a", data)).current
CurrentAfter(data) ==
    IF get_player("a", data) = "own" THEN own'[data.guildId].current
    ELSE adopted'["a"][data.guildId].current

\* C34: a track-end event for a room that has a session on the Node, hosted
\* or adopted, dispatches track_end with the track that ended; the session
\* then has no current track, unless the reason is REPLACED, which leaves
\* the current track as it was.
C34_TrackEndNotifiesAndClears ==
    [][LET data == Head(inbox["a"])
       IN (/\ handle_msg("a")
           /\ data.type = "TrackEndEvent"
           /\ get_player("a", data) # "none")
            => /\ handled'.event.name = "track_end"
               /\ handled'.event.track.id = data.track
               /\ CurrentAfter(data) = IF data.reason # "REPLACED" THEN NoTrack
                                       ELSE CurrentBefore(data)]_vars

\* C39: a track_start dispatched for a TrackStartEvent frame carries the
\* track the frame reports, and a track_end carries the track of the last
\* track_start dispatched for the session.
C39_StartNamesReportedTrack ==
    [][LET data == Head(inbox["a"])
       IN handle_msg("a")
            => /\ handled'.event.name = "track_start"
                    => handled'.event.track.id = data.track
               /\ handled'.event.name = "track_end"
                    => handled'.event.track =
                         Deref("a", data.guildId, get_player("a", data)).last_track]_vars

(***************************************************************************)
(* Claims about the sessions of a Node                                     *)
(***************************************************************************)
\* C36: a session that enters the player map of a Node, by the host or by
\* adoption, has that Node as its bound Node (so that its mutating calls
\* reach the Node once it is connected).
C36_MapEntriesBoundToNode ==
    [][\A n \in Nodes : \A r \in Rooms :
         (players'[n][r] # "none" /\ players'[n][r] # players[n][r])
           => (IF players'[n][r] = "own" THEN own'[r].node
               ELSE adopted'[n][r].node) = n]_vars

C38_FailedCallChangesNothing ==
    [][\A r \in PoolRooms :
         (call'[r] # call[r] /\ call'[r].result = "PlayerNotConnected")
           => /\ own'[r].current = own[r].current
              /\ own'[r].position = own[r].position
              /\ own'[r].paused = own[r].paused
              /\ own'[r].filters = own[r].filters]_vars

(***************************************************************************)
(* A random Node for a session without one                                 *)
(***************************************************************************)
\* NodePool.get_random_node: random.choice of the values of the registry
\* (IndexError for an empty list); a Node is truthy, so line 370 is not
\* reached
get_random_node ==
    IF pool = <<>> THEN {"IndexError"} ELSE {pool[i] : i \in 1..Len(pool)}

\* the `node` property of a Player
node_property(p) == IF p.node = "none" THEN get_random_node ELSE {p.node}

\* Player.fetch_tracks: the Node the query goes to, or the error of the
\* `node` property
fetch_tracks(p) == node_property(p)

\* the three calls, on the registry and on the session of a room
random_node_call(op, r) ==
    /\ \E out \in (CASE op = "get_random_node" -> get_random_node
                     [] op = "node" -> node_property(own[r])
                     [] op = "fetch_tracks" -> fetch_tracks(own[r])) :
         selection' = [op |-> op, nodes |-> pool, guild_id |-> GuildId(r),
                       endpoint |-> NoEndpoint, strategies |-> <<>>,
                       out |-> out]
    /\ UNCHANGED <<nodeVars, players, pool, config, node_label, shard_count,
                   removal, taskVars, playerVars, http, merged, inbox, handled>>

NextRandom ==
    \E op \in {"get_random_node", "node", "fetch_tracks"}, r \in Guilds :
        random_node_call(op, r)

\* the calls are made on the registries of InitStrategy, whose sessions
\* have no Node
SpecRandom == InitStrategy /\ [][NextRandom]_vars

\* C40: on an empty registry get_random_node, the `node` property and
\* fetch_tracks of a session without a Node raise NoNodesAvailable and
\* nothing else.
C40_EmptyRegistryRaisesNoNodes ==
    (selection.op \in {"get_random_node", "node", "fetch_tracks"}
     /\ selection.nodes = <<>>)
      => selection.out = "NoNodesAvailable"

(***************************************************************************)
(* A session that connects while the reconciliation is in progress         *)
(***************************************************************************)
\* the server of Node n answers the GET of the players of invocation k
\* with the players it has at this moment
sync_served(n, k) ==
    /\ ctask[n][k].pc = "syncreq"
    /\ ~ctask[n][k].answered
    /\ ctask[n][k].sid # None /\ ctask[n][k].sid = srv[n].sess
    /\ ctask' = [ctask EXCEPT ![n][k].answered = TRUE,
                              ![n][k].actual = srv[n].remote]
    /\ UNCHANGED <<nodeVars, players, poolVars, lst, hmsg, sock, srv,
                   playerVars>>

\* the server of a Node takes the voice update sent for room r and creates
\* its player
voice_update_served(r) ==
    /\ rest[r].voice \in Nodes
    /\ ~srv[rest[r].voice].remote[r].present
    /\ srv' = [srv EXCEPT ![rest[r].voice].remote[r] = RemoteIdle]
    /\ UNCHANGED <<nodeVars, players, poolVars, ctask, lst, hmsg, sock,
                   playerVars>>

\* The state of InitSync in which the server has no player and Node a no
\* session: the host is about to connect its sessions.
InitRace ==
    /\ InitSync
    /\ players["a"] = NoPlayers
    /\ \A r \in Rooms : ~srv["a"].remote[r].present

NextRace ==
    \/ \E k \in TaskIds : sync_served("a", k)
    \/ sync_players("a")
    \/ \E k \in TaskIds : set_available("a", k)
    \/ \E r \in PoolRooms :
         \/ \E channel \in BOOLEAN : on_voice_state_update(r, 3, channel)
         \/ \E e \in Endpoints : on_voice_server_update(r, e, 4)
         \/ voice_update_served(r)

SpecRace == InitRace /\ [][NextRace]_vars

\* C35: the sessions sync_players() starts to tear down are sessions the
\* server does not have at that moment, also when a session has registered
\* on the Node and was created on the server since the request was sent.
C35_TearsDownOnlyMissing ==
    [][\A k \in TaskIds : \A r \in Rooms :
         (r \in ctask'["a"][k].removing /\ r \notin ctask["a"][k].removing)
           => ~srv["a"].remote[r].present]_vars

====
